---- MODULE Spec2Model ----
(***************************************************************************)
(* Job pipeline of the transcription service: POST /transcribe             *)
(* (create_transcription_job), the queue envelope (InMemoryJob or an RQ    *)
(* job), the worker (transcribe_job), the catalog row (Transcript) and the *)
(* server-sent event stream (_stream_job).                                 *)
(*                                                                         *)
(* One submission is followed from enqueue to the end of the run.  Every   *)
(* process is cut at the points where another thread or process can run:   *)
(* the worker between its meta writes and its database transactions, the   *)
(* handler between its save_meta calls and its commit, the stream between  *)
(* its reads of the envelope (it yields between them).                     *)
(***************************************************************************)
EXTENDS Integers, Sequences, FiniteSets, TLC

\* ------------------------------------------------------------------ bounds
NTokens == 2         \* most tokens the engine emits for the job
MaxHeartbeats == 1   \* most heartbeats one subscriber receives
MaxTicks == 25       \* how long the clock of the timed stream is followed
LongTokens == 101    \* most tokens the engine emits for a long recording
JobTimeout == 2      \* the configured job_timeout, in ticks of the run clock

\* _stream_job only reads the envelope, so generators do not influence each
\* other or the pipeline: one subscriber that attaches at an arbitrary
\* moment, as an arbitrary user, stands for every subscriber.
Subs == {"s1"}
Users == {"owner", "other"}
Backends == {"memory", "broker"}

\* --------------------------------------------------------- meta mappings
\* A meta mapping is a function whose domain is the set of keys present.
EmptyMeta == <<>>

Has(m, k) == k \in DOMAIN m

Get(m, k, d) == IF k \in DOMAIN m THEN m[k] ELSE d

\* dict.update(u)
Update(m, u) == u @@ m

\* dict.setdefault(k, v)
SetDefault(m, k, v) == IF k \in DOMAIN m THEN m ELSE (k :> v) @@ m

VARIABLES
    backend,        \* which queue _obtain_queue resolved to
    store,          \* envelope meta as fetch_job / refresh see it
    hmeta,          \* broker: job.meta of the handler's Job object
    wmeta,          \* broker: job.meta of the worker's Job object
    jstatus,        \* InMemoryJob._status / the RQ job status
    hpc,            \* position of create_transcription_job
    wpc,            \* position of the worker run
    parts,          \* len(transcript_parts) in transcribe_job
    werr,           \* message of the exception the run raised ("" if none)
    row,            \* the Transcript row of the job, as committed
    spc,            \* position of each _stream_job generator
    suser,          \* expected_user_id of each subscriber
    smeta,          \* broker: job.meta of each subscriber's Job object
    sstatus,        \* status local of each generator (line 435)
    stoken,         \* token_payload_text local (0 stands for None)
    sprogress,      \* progress_value local
    last_progress,
    last_snapshot_progress,
    snapshot_sent,
    heartbeats,     \* heartbeats sent to each subscriber
    events,         \* events yielded to each subscriber, in order
    jobs_code,      \* HTTP status of the last GET /jobs/{job_id} (0: none)
    jobs_user,      \* the user of that request
    now,            \* loop.time(), in ticks of half a second
    last_heartbeat, \* last_heartbeat local of each generator
    last_event_at,  \* when each subscriber was last sent an event
    queue_backend,  \* settings.queue_backend
    broker_lib,     \* the redis and rq packages are importable
    broker_up,      \* the broker answers a ping
    fallback_queue, \* the global _fallback_queue has been created
    mem_jobs,       \* ids of the envelopes of the in-memory queue
    brk_jobs,       \* ids of the envelopes held by the broker
    blobs,          \* audio keys stored in the blob storage
    rows,           \* job ids that have a catalog row
    requests,       \* requests handled so far
    resp,           \* the last request and its answer
    resolved,       \* what the last _obtain_queue call returned
    fell_back,      \* a resolution found the broker unreachable
    live,           \* the live sessions and the requests on them
    seg_run,        \* the segments of a queued job on their way to its row
    s3,             \* the S3StorageClient class and its instances
    promo,          \* a run of the segment promotion rules
    eng,            \* a shared engine adapter and the calls on it
    job,            \* a process_transcription run and its row
    prep            \* the model preparation of one (model, device) key

hvars == <<hmeta, hpc>>
wvars == <<wmeta, wpc, parts, werr>>
svars == <<spc, suser, smeta, sstatus, stoken, sprogress, last_progress,
           last_snapshot_progress, snapshot_sent, heartbeats, events>>
tvars == <<now, last_heartbeat, last_event_at>>
fvars == <<queue_backend, broker_lib, broker_up, fallback_queue, mem_jobs,
           brk_jobs, blobs, rows, requests, resp, resolved, fell_back>>
yvars == <<promo, eng, job, prep>>
xvars == <<live, seg_run, s3, yvars>>
pvars == <<backend, store, jstatus, row, hvars, wvars, svars, jobs_code,
           jobs_user>>
vars == <<backend, store, jstatus, row, hvars, wvars, svars, jobs_code,
          jobs_user, tvars, fvars, xvars>>

\* ------------------------------------------------------------ catalog row
\* Transcript(...) as inserted by create_transcription_job
QueuedRow ==
    [exists |-> TRUE, status |-> "queued", transcript_key |-> "",
     completed_at |-> "", segments |-> "[]", error_message |-> ""]

\* the first session of transcribe_job: the row goes to "transcribing"
RunningRow(r) == [r EXCEPT !.status = "transcribing"]

\* a finalization that forgets completed_at
CompletedRowNoTimestamp(r, key) ==
    [r EXCEPT !.status = "completed", !.transcript_key = key,
              !.segments = "run"]

\* the last session of transcribe_job: the row is finalized
CompletedRow(r, key) ==
    [r EXCEPT !.status = "completed", !.transcript_key = key,
              !.segments = "run", !.completed_at = "now"]

\* f"{audio_key}.txt"
TranscriptKey == "audio.txt"

\* ------------------------------------------------------- envelope helpers
\* Of the meta keys the timestamps (queued_at, updated_at) and duration are
\* left out: no step of the pipeline reads them.
\* base_meta of InMemoryJob.__init__, updated with the meta= argument
BaseMeta == [status |-> "queued", progress |-> 0, segment |-> 0]

\* the meta= argument of queue.enqueue in create_transcription_job
SeededMeta ==
    [status |-> "queued", progress |-> 0, segment |-> 0,
     user_id |-> "owner", quality_profile |-> "balanced"]

EnqueueMeta(meta) ==
    IF backend = "memory" THEN Update(BaseMeta, meta) ELSE meta

\* the setdefault block of create_transcription_job after enqueue
SeedDefaults(m) ==
    SetDefault(SetDefault(SetDefault(SetDefault(SetDefault(m,
        "status", "queued"), "progress", 0), "segment", 0),
        "user_id", "owner"), "quality_profile", "balanced")

\* _update_job_meta: two setdefaults, then update
UpdateJobMeta(m, u) ==
    Update(SetDefault(SetDefault(m, "progress", 0), "segment", 0), u)

\* InMemoryJob.get_status(refresh=False) / the status field of an RQ job
GetStatus(js, m) ==
    IF backend = "memory" /\ js \in {"finished", "failed"}
    THEN (IF Get(m, "status", "") = "failed" THEN "failed" ELSE "finished")
    ELSE js

\* job.meta of a party: the shared dict of the InMemoryJob, or the party's
\* own copy of an RQ job
MetaOf(local) == IF backend = "memory" THEN store ELSE local

\* a write to job.meta followed by save_meta(): in memory the dict is the
\* envelope; with the broker the whole local mapping replaces the stored one
Saved(local, new) == IF backend = "memory" THEN local ELSE new

\* the handlers of the live requests that can run at the same time
Pushers == {"p1", "p2"}

\* LIVE_SESSIONS is empty. The fields of the one session a behaviour
\* creates, its directory, and the requests in flight:
NoLiveSession ==
    [live_sessions |-> {},     \* ids in LIVE_SESSIONS
     directory |-> FALSE,      \* the session directory exists
     audio |-> 0,              \* chunks written to stream.wav (0: no file)
     chunk_files |-> {},       \* the chunk files present in the directory
     chunk_count |-> 0,
     dropped_chunks |-> 0,
     segments |-> <<>>,
     last_t_end |-> 0,
     ring |-> 0,               \* chunks appended to the ring
     last_activity |-> 0,
     lock |-> "free",          \* who holds state.lock
     ppc |-> [p \in Pushers |-> "idle"],   \* position of each chunk push
     pindex |-> [p \in Pushers |-> 0],     \* its local index
     presp |-> [p \in Pushers |-> 0],      \* its answer (0 while it runs)
     fpc |-> "idle",           \* position of the finalize request
     dpc |-> "idle",           \* position of the discard request
     fresp |-> 0,              \* the answer of the last finalize
     created |-> FALSE,        \* create_live_session has run
     live_requests |-> 0,      \* live requests begun
     answered |-> 0,           \* chunk pushes answered 200
     finalized |-> FALSE,      \* a finalize has been answered 200
     removed |-> FALSE,        \* finalize or discard popped the session
     transcriptions |-> <<>>]  \* rows of the Transcription table

LiveIdle == live = NoLiveSession

\* no transcription of segments is followed
NoSegments ==
    [engine |-> <<>>,          \* the segments faster-whisper yields
     tpc |-> "idle",           \* position of TranscriptionService.transcribe
     collected |-> <<>>,       \* its local list segments
     meta_segments |-> <<>>,   \* job.meta["segments"]
     row_status |-> "queued",  \* Transcript.status of the job's row
     row_segments |-> <<>>]    \* Transcript.segments of the job's row

SegmentsIdle == seg_run = NoSegments

\* the S3StorageClient instances of the process
Clients == {"c1", "c2"}

\* the instances are constructed with boto3 installed; nothing is cached
FreshStorage ==
    [endpoint_up |-> TRUE,     \* the S3 endpoint answers
     bucket_state |-> FALSE,   \* _bucket_state holds the cache key
     local_mode |-> [c \in Clients |-> FALSE],
     client |-> [c \in Clients |-> TRUE],  \* the instance has a boto3 client
     epc |-> [c \in Clients |-> "idle"],   \* position of ensure_buckets
     late |-> [c \in Clients |-> FALSE],   \* it began after the downgrade
     probes |-> 0,             \* passes of ensure_buckets over the buckets
     warnings |-> 0,           \* downgrade warnings logged
     unreachable_seen |-> FALSE,  \* an EndpointConnectionError was caught
     late_contacts |-> 0,      \* remote calls by calls that began after it
     variant |-> "none",       \* the variant the last operation used
     operations |-> 0,         \* storage operations done
     storage_calls |-> 0]      \* calls on the storage clients begun

StorageIdle == s3 = FreshStorage

\* no promotion run is followed
NoPromotion == [pc |-> "idle"]

PromotionIdle == promo = NoPromotion

\* no call on an engine adapter is followed
NoEngine == [pc |-> "idle"]

EngineIdle == eng = NoEngine

\* no process_transcription run is followed
NoJob == [pc |-> "idle"]

JobIdle == job = NoJob

\* no model preparation is followed
NoPreparation == [pc |-> "idle"]

PreparationIdle == prep = NoPreparation

AuxIdle == PromotionIdle /\ EngineIdle /\ JobIdle /\ PreparationIdle

\* the subsystems that a specification does not follow stay as they start
SideIdle == LiveIdle /\ SegmentsIdle /\ StorageIdle /\ AuxIdle

\* no request has been handled yet
NoRequest == [op |-> "none", code |-> 0, job |-> 0]

FrontIdle ==
    /\ fallback_queue = FALSE
    /\ mem_jobs = {}
    /\ brk_jobs = {}
    /\ blobs = {}
    /\ rows = {}
    /\ requests = 0
    /\ resp = NoRequest
    /\ resolved = "none"
    /\ fell_back = FALSE

\* ------------------------------------------------------------------- Init
\* nothing has been submitted: no envelope, no run, no subscriber
PipelineIdle ==
    /\ store = EmptyMeta
    /\ hmeta = EmptyMeta
    /\ wmeta = EmptyMeta
    /\ jstatus = "absent"
    /\ hpc = "start"
    /\ wpc = "idle"
    /\ parts = 0
    /\ werr = ""
    /\ row = [QueuedRow EXCEPT !.exists = FALSE]
    /\ spc = [s \in Subs |-> "init"]
    /\ suser = [s \in Subs |-> "owner"]
    /\ smeta = [s \in Subs |-> EmptyMeta]
    /\ sstatus = [s \in Subs |-> "absent"]
    /\ stoken = [s \in Subs |-> 0]
    /\ sprogress = [s \in Subs |-> 0]
    /\ last_progress = [s \in Subs |-> 0]
    /\ last_snapshot_progress = [s \in Subs |-> 0]
    /\ snapshot_sent = [s \in Subs |-> FALSE]
    /\ heartbeats = [s \in Subs |-> 0]
    /\ events = [s \in Subs |-> <<>>]
    /\ jobs_code = 0
    /\ jobs_user = "nobody"
    /\ now = 0
    /\ last_heartbeat = [s \in Subs |-> 0]
    /\ last_event_at = [s \in Subs |-> 0]

Init ==
    /\ backend \in Backends
    /\ PipelineIdle
    /\ queue_backend = "auto"
    /\ broker_lib = TRUE
    /\ broker_up = TRUE
    /\ FrontIdle
    /\ SideIdle

\* ------------------------------------------- create_transcription_job
\* queue.enqueue(...): the envelope exists, is fetchable, and (in memory)
\* its thread has been started
Enqueue ==
    /\ hpc = "start"
    /\ store' = EnqueueMeta(SeededMeta)
    /\ hmeta' = Saved(hmeta, SeededMeta)
    /\ jstatus' = "queued"
    /\ hpc' = "seed"
    /\ UNCHANGED <<jobs_code, jobs_user, tvars, fvars, xvars, backend, row, wvars, svars>>

\* the setdefault block and the first save_meta()
HandlerSeed ==
    /\ hpc = "seed"
    /\ LET new == SeedDefaults(MetaOf(hmeta)) IN
        /\ store' = new
        /\ hmeta' = Saved(hmeta, new)
    /\ hpc' = "insert"
    /\ UNCHANGED <<jobs_code, jobs_user, tvars, fvars, xvars, backend, jstatus, row, wvars, svars>>

\* session.add + flush (not yet visible to other sessions), then
\* job.meta["transcript_id"] = transcript.id and the second save_meta()
HandlerInsert ==
    /\ hpc = "insert"
    /\ LET new == Update(MetaOf(hmeta), [transcript_id |-> 1]) IN
        /\ store' = new
        /\ hmeta' = Saved(hmeta, new)
    /\ hpc' = "commit"
    /\ UNCHANGED <<jobs_code, jobs_user, tvars, fvars, xvars, backend, jstatus, row, wvars, svars>>

\* leaving session_scope(): the row is committed
HandlerCommit ==
    /\ hpc = "commit"
    /\ row' = QueuedRow
    /\ hpc' = "done"
    /\ UNCHANGED <<jobs_code, jobs_user, tvars, fvars, xvars, backend, store, jstatus, hmeta, wvars, svars>>

\* ------------------------------------------------------ the worker run
\* _update_job_meta(u) by the running job
WorkerWrite(u) ==
    LET new == UpdateJobMeta(MetaOf(wmeta), u) IN
        /\ store' = new
        /\ wmeta' = Saved(wmeta, new)

\* InMemoryJob._run begins on its thread / an RQ worker dequeues the job
WorkerStart ==
    /\ wpc = "idle"
    /\ hpc # "start"
    /\ jstatus' = "started"
    /\ wmeta' = Saved(wmeta, store)
    /\ wpc' = "meta_transcribing"
    /\ UNCHANGED <<jobs_code, jobs_user, tvars, fvars, xvars, backend, store, row, hvars, parts, werr, svars>>

WorkerMetaTranscribing ==
    /\ wpc = "meta_transcribing"
    /\ WorkerWrite([status |-> "transcribing", quality_profile |-> "balanced"])
    /\ wpc' = "catalog_running"
    /\ UNCHANGED <<jobs_code, jobs_user, tvars, fvars, xvars, backend, jstatus, row, hvars, parts, werr, svars>>

WorkerCatalogRunning ==
    /\ wpc = "catalog_running"
    /\ row' = IF row.exists THEN RunningRow(row) ELSE row
    /\ wpc' = "download"
    /\ UNCHANGED <<jobs_code, jobs_user, tvars, fvars, xvars, backend, store, jstatus, hvars, wmeta, parts, werr, svars>>

\* storage_client.download_audio: succeeds or raises
WorkerDownload ==
    /\ wpc = "download"
    /\ \/ wpc' = "engine" /\ werr' = werr
       \/ wpc' = "except" /\ werr' = "download failed"
    /\ UNCHANGED <<jobs_code, jobs_user, tvars, fvars, xvars, backend, store, jstatus, row, hvars, wmeta, parts, svars>>

\* on_token: one more token from an engine that emits at most n
WorkerTokenUpTo(n) ==
    /\ wpc = "engine"
    /\ parts < n
    /\ parts' = parts + 1
    /\ WorkerWrite([last_token |-> parts + 1, progress |-> parts + 1,
                    segment |-> parts])
    /\ UNCHANGED <<jobs_code, jobs_user, tvars, fvars, xvars, backend, jstatus, row, hvars, wpc, werr, svars>>

WorkerToken == WorkerTokenUpTo(NTokens)

\* transcription_service.transcribe returns, or raises while decoding
WorkerEngineEnd ==
    /\ wpc = "engine"
    /\ \/ wpc' = "upload" /\ werr' = werr
       \/ wpc' = "except" /\ werr' = "engine failed"
    /\ UNCHANGED <<jobs_code, jobs_user, tvars, fvars, xvars, backend, store, jstatus, row, hvars, wmeta, parts, svars>>

\* storage_client.upload_transcript: succeeds or raises
WorkerUpload ==
    /\ wpc = "upload"
    /\ \/ wpc' = "meta_completed" /\ werr' = werr
       \/ wpc' = "except" /\ werr' = "upload failed"
    /\ UNCHANGED <<jobs_code, jobs_user, tvars, fvars, xvars, backend, store, jstatus, row, hvars, wmeta, parts, svars>>

WorkerMetaCompleted ==
    /\ wpc = "meta_completed"
    /\ WorkerWrite([status |-> "completed", transcript_key |-> TranscriptKey,
                    segments |-> "run", language |-> "en", segment |-> 1])
    /\ wpc' = "catalog_completed"
    /\ UNCHANGED <<jobs_code, jobs_user, tvars, fvars, xvars, backend, jstatus, row, hvars, parts, werr, svars>>

WorkerCatalogCompleted ==
    /\ wpc = "catalog_completed"
    /\ row' = IF row.exists THEN CompletedRow(row, TranscriptKey) ELSE row
    /\ wpc' = "return"
    /\ UNCHANGED <<jobs_code, jobs_user, tvars, fvars, xvars, backend, store, jstatus, hvars, wmeta, parts, werr, svars>>

\* transcribe_job returns: InMemoryJob._run checks the meta status; an RQ
\* worker marks the job finished
WorkerReturn ==
    /\ wpc = "return"
    /\ IF backend = "memory"
       THEN /\ store' = IF Get(store, "status", "") \in {"failed", "completed"}
                        THEN store
                        ELSE Update(store, [status |-> "completed"])
            /\ jstatus' = jstatus
            /\ wpc' = "finally"
       ELSE /\ store' = store
            /\ jstatus' = "finished"
            /\ wpc' = "done"
    /\ UNCHANGED <<jobs_code, jobs_user, tvars, fvars, xvars, backend, row, hvars, wmeta, parts, werr, svars>>

\* an except branch that leaves the meta as the function left it
MetaAfterRaiseUntouched(m) == m

\* self.meta["status"] = "failed" in the except branch of InMemoryJob._run
MetaAfterRaise(m) == Update(m, [status |-> "failed"])

\* transcribe_job raised: InMemoryJob._run sets meta status failed; an RQ
\* worker marks the job failed and leaves the meta alone
WorkerExcept ==
    /\ wpc = "except"
    /\ IF backend = "memory"
       THEN /\ store' = MetaAfterRaise(store)
            /\ jstatus' = jstatus
            /\ wpc' = "except_msg"
       ELSE /\ store' = store
            /\ jstatus' = "failed"
            /\ wpc' = "done"
    /\ UNCHANGED <<jobs_code, jobs_user, tvars, fvars, xvars, backend, row, hvars, wmeta, parts, werr, svars>>

\* self.meta.setdefault("error_message", str(exc))
WorkerExceptMessage ==
    /\ wpc = "except_msg"
    /\ store' = SetDefault(store, "error_message", werr)
    /\ wpc' = "finally"
    /\ UNCHANGED <<jobs_code, jobs_user, tvars, fvars, xvars, backend, jstatus, row, hvars, wmeta, parts, werr, svars>>

\* the finally block of InMemoryJob._run
WorkerFinally ==
    /\ wpc = "finally"
    /\ jstatus' = IF Get(store, "status", "") = "failed"
                  THEN "failed" ELSE "finished"
    /\ wpc' = "done"
    /\ UNCHANGED <<jobs_code, jobs_user, tvars, fvars, xvars, backend, store, row, hvars, wmeta, parts, werr, svars>>

\* ------------------------------------------------------------ _stream_job
SnapshotStep == 25

Ev(name, detail, progress, token) ==
    [event |-> name, detail |-> detail, progress |-> progress, token |-> token]

NotFound == Ev("error", "job-not-found", 0, 0)

\* an owner check that lets every user through
ForeignNeverRejected(m, u) == FALSE

\* meta.get("user_id") not in {expected_user_id, None}
Foreign(m, u) == Has(m, "user_id") /\ m["user_id"] # u

\* a generator that keeps polling after a terminal event
AfterTerminalKeepPolling == "refresh"

\* where the generator goes after a terminal event (return / break)
AfterTerminal == "done"

\* a generator that records its visit in the envelope
MetaAfterPollMarked(m) == Update(m, [streamed |-> TRUE])

\* _stream_job reads job.meta and never assigns to it: the envelope after a
\* poll cycle is the envelope before it
MetaAfterPoll(m) == m

\* InMemoryJob.refresh(): only a dead thread whose _status is still
\* "started" is corrected; an RQ refresh reloads the job
RefreshedStatus ==
    IF backend = "memory" /\ wpc = "done" /\ jstatus = "started"
    THEN (IF Get(store, "status", "") = "failed" THEN "failed" ELSE "finished")
    ELSE jstatus

\* the part of _stream_job before the loop
Connect(s, u) ==
    /\ spc[s] = "init"
    /\ suser' = [suser EXCEPT ![s] = u]
    /\ IF hpc = "start" \/ Foreign(store, u)
       THEN /\ events' = [events EXCEPT ![s] = Append(@, NotFound)]
            /\ spc' = [spc EXCEPT ![s] = AfterTerminal]
            /\ UNCHANGED <<smeta, last_progress, last_snapshot_progress,
                           snapshot_sent>>
       ELSE /\ smeta' = [smeta EXCEPT ![s] = Saved(@, store)]
            /\ last_progress' = [last_progress EXCEPT
                                    ![s] = Get(store, "progress", 0)]
            /\ last_snapshot_progress' = [last_snapshot_progress EXCEPT
                                    ![s] = Get(store, "progress", 0)]
            /\ snapshot_sent' = [snapshot_sent EXCEPT
                                    ![s] = (Get(store, "progress", 0) = 0)]
            /\ spc' = [spc EXCEPT ![s] = "refresh"]
            /\ UNCHANGED events
    /\ UNCHANGED <<jobs_code, jobs_user, tvars, fvars, xvars, backend, store, jstatus, row, hvars, wvars, sstatus,
                   stoken, sprogress, heartbeats>>

\* the locals of a poll cycle are dead once the cycle is over: the next
\* cycle assigns each of them before it reads it
EndCycle(s) ==
    /\ smeta' = [smeta EXCEPT ![s] = EmptyMeta]
    /\ sstatus' = [sstatus EXCEPT ![s] = "absent"]
    /\ stoken' = [stoken EXCEPT ![s] = 0]
    /\ sprogress' = [sprogress EXCEPT ![s] = 0]

\* top of a poll cycle: refresh, get_status, the owner check, last_token
PollRefresh(s) ==
    /\ spc[s] = "refresh"
    /\ jstatus' = RefreshedStatus
    /\ smeta' = [smeta EXCEPT ![s] = Saved(@, store)]
    /\ sstatus' = [sstatus EXCEPT ![s] = GetStatus(RefreshedStatus, store)]
    /\ IF Foreign(store, suser[s])
       THEN /\ events' = [events EXCEPT ![s] = Append(@, NotFound)]
            /\ spc' = [spc EXCEPT ![s] = AfterTerminal]
            /\ UNCHANGED stoken
       ELSE /\ stoken' = [stoken EXCEPT ![s] = Get(store, "last_token", 0)]
            /\ spc' = [spc EXCEPT ![s] = "progress"]
            /\ UNCHANGED events
    /\ UNCHANGED <<jobs_code, jobs_user, tvars, fvars, xvars, backend, store, row, hvars, wvars, suser, sprogress,
                   last_progress, last_snapshot_progress, snapshot_sent,
                   heartbeats>>

\* a delta for every cycle that sees a token, new progress or not
DeltaDueOnAnyToken(pv, last, token) == token # 0

\* progress_value > last_progress and token_payload_text
DeltaDue(pv, last, token) == pv > last /\ token # 0

\* progress_value, then the snapshot and the delta of the cycle
PollProgress(s) ==
    /\ spc[s] = "progress"
    /\ LET m == MetaOf(smeta[s])
           pv == Get(m, "progress", 0)
           text == Get(m, "transcript_so_far", "")
           snap == text # "" /\ (~snapshot_sent[s]
                                 \/ pv - last_snapshot_progress[s] >= SnapshotStep)
           delta == DeltaDue(pv, last_progress[s], stoken[s])
           e1 == IF snap THEN <<Ev("snapshot", text, pv, 0)>> ELSE <<>>
           e2 == IF delta THEN <<Ev("delta", "", pv, stoken[s])>> ELSE <<>>
       IN  /\ sprogress' = [sprogress EXCEPT ![s] = pv]
           /\ snapshot_sent' = [snapshot_sent EXCEPT ![s] = @ \/ snap]
           /\ last_snapshot_progress' = [last_snapshot_progress EXCEPT
                                            ![s] = IF snap THEN pv ELSE @]
           /\ last_progress' = [last_progress EXCEPT
                                            ![s] = IF delta THEN pv ELSE @]
           /\ events' = [events EXCEPT ![s] = @ \o e1 \o e2]
    /\ spc' = [spc EXCEPT ![s] = "status"]
    /\ store' = MetaAfterPoll(store)
    /\ UNCHANGED <<jobs_code, jobs_user, tvars, fvars, xvars, backend, jstatus, row, hvars, wvars, suser, smeta,
                   sstatus, stoken, heartbeats>>

\* meta_status, then completed / error / heartbeat / sleep
PollStatus(s) ==
    /\ spc[s] = "status"
    /\ LET m == MetaOf(smeta[s])
           meta_status == IF Get(m, "status", "") # ""
                          THEN m["status"] ELSE sstatus[s]
       IN  IF meta_status = "completed"
           THEN /\ events' = [events EXCEPT ![s] = Append(@,
                       Ev("completed", Get(m, "transcript_key", ""),
                          sprogress[s], 0))]
                /\ spc' = [spc EXCEPT ![s] = AfterTerminal]
                /\ UNCHANGED heartbeats
           ELSE IF meta_status = "failed" \/ sstatus[s] = "failed"
           THEN /\ events' = [events EXCEPT ![s] = Append(@,
                       Ev("error", Get(m, "error_message", "unknown"),
                          sprogress[s], 0))]
                /\ spc' = [spc EXCEPT ![s] = AfterTerminal]
                /\ UNCHANGED heartbeats
           ELSE /\ spc' = [spc EXCEPT ![s] = "refresh"]
                /\ \/ UNCHANGED <<events, heartbeats>>
                   \/ /\ heartbeats[s] < MaxHeartbeats
                      /\ heartbeats' = [heartbeats EXCEPT ![s] = @ + 1]
                      /\ events' = [events EXCEPT ![s] = Append(@,
                             Ev("heartbeat", meta_status, sprogress[s], 0))]
    /\ EndCycle(s)
    /\ UNCHANGED <<jobs_code, jobs_user, tvars, fvars, xvars, backend, store, jstatus, row, hvars, wvars, suser,
                   last_progress, last_snapshot_progress, snapshot_sent>>

\* the client goes away: the generator is cancelled where it is suspended
Disconnect(s) ==
    /\ spc[s] \in {"refresh", "status"}
    /\ spc' = [spc EXCEPT ![s] = "cancelled"]
    /\ EndCycle(s)
    /\ UNCHANGED <<jobs_code, jobs_user, tvars, fvars, xvars, backend, store, jstatus, row, hvars, wvars, suser,
                   last_progress, last_snapshot_progress, snapshot_sent,
                   heartbeats, events>>

\* GET /jobs/{job_id}: 404 for an unknown job or another user's job, else a
\* snapshot of the meta; the envelope is only read
GetJobStatus(u) ==
    /\ jobs_code' = IF hpc = "start" \/ Foreign(store, u) THEN 404 ELSE 200
    /\ jobs_user' = u
    /\ UNCHANGED <<backend, store, jstatus, row, hvars, wvars, svars, tvars,
                   fvars, xvars>>

\* ------------------------------------------------------- specification
Handler == Enqueue \/ HandlerSeed \/ HandlerInsert \/ HandlerCommit

Worker ==
    \/ WorkerStart \/ WorkerMetaTranscribing \/ WorkerCatalogRunning
    \/ WorkerDownload \/ WorkerToken \/ WorkerEngineEnd \/ WorkerUpload
    \/ WorkerMetaCompleted \/ WorkerCatalogCompleted \/ WorkerReturn
    \/ WorkerExcept \/ WorkerExceptMessage \/ WorkerFinally

Poll(s) == PollRefresh(s) \/ PollProgress(s) \/ PollStatus(s)

Next ==
    \/ Handler
    \/ Worker
    \/ \E s \in Subs : \E u \in Users : Connect(s, u)
    \/ \E s \in Subs : Poll(s)
    \/ \E s \in Subs : Disconnect(s)
    \/ \E u \in Users : GetJobStatus(u)

Spec == Init /\ [][Next]_vars

\* Every started thread, process and generator keeps being scheduled: the
\* handler runs to its return, the worker to the end of the run, and a
\* connected generator wakes up from each sleep.  Nobody is obliged to
\* connect or to disconnect.
FairSpec ==
    /\ Spec
    /\ WF_vars(Handler)
    /\ WF_vars(Worker)
    /\ \A s \in Subs : WF_vars(Poll(s))

\* ------------------------------------------------- the stream with a clock
\* The heartbeat rule of _stream_job depends on loop.time().  Here the
\* generator is followed with a clock: a poll cycle is one step (on the
\* event loop nothing runs between its statements), time is counted in
\* ticks of half a second and passes in asyncio.sleep(0.5) only.  The
\* submission has returned; the worker runs as above, at any pace.

\* heartbeat_interval = 10.0 seconds
HeartbeatInterval == 20

\* asyncio.sleep(0.5)
SleepTicks == 1

\* the envelope once create_transcription_job has returned
SubmittedMeta ==
    Update(SeedDefaults(EnqueueMeta(SeededMeta)), [transcript_id |-> 1])

SubmittedInit ==
    /\ backend \in Backends
    /\ store = SubmittedMeta
    /\ hmeta = Saved(EmptyMeta, SubmittedMeta)
    /\ wmeta = EmptyMeta
    /\ jstatus = "queued"
    /\ hpc = "done"
    /\ wpc = "idle"
    /\ parts = 0
    /\ werr = ""
    /\ row = QueuedRow
    /\ spc = [s \in Subs |-> "init"]
    /\ suser = [s \in Subs |-> "owner"]
    /\ smeta = [s \in Subs |-> EmptyMeta]
    /\ sstatus = [s \in Subs |-> "absent"]
    /\ stoken = [s \in Subs |-> 0]
    /\ sprogress = [s \in Subs |-> 0]
    /\ last_progress = [s \in Subs |-> 0]
    /\ last_snapshot_progress = [s \in Subs |-> 0]
    /\ snapshot_sent = [s \in Subs |-> FALSE]
    /\ heartbeats = [s \in Subs |-> 0]
    /\ events = [s \in Subs |-> <<>>]
    /\ jobs_code = 0
    /\ jobs_user = "nobody"
    /\ now = 0
    /\ last_heartbeat = [s \in Subs |-> 0]
    /\ last_event_at = [s \in Subs |-> 0]
    /\ queue_backend = "auto"
    /\ broker_lib = TRUE
    /\ broker_up = TRUE
    /\ FrontIdle
    /\ SideIdle

\* the owner subscribes: the part of _stream_job before the loop
TimedAttach(s) ==
    /\ spc[s] = "init"
    /\ spc' = [spc EXCEPT ![s] = "refresh"]
    /\ last_progress' = [last_progress EXCEPT ![s] = Get(store, "progress", 0)]
    /\ last_snapshot_progress' = [last_snapshot_progress EXCEPT
                                    ![s] = Get(store, "progress", 0)]
    /\ snapshot_sent' = [snapshot_sent EXCEPT
                            ![s] = (Get(store, "progress", 0) = 0)]
    /\ last_heartbeat' = [last_heartbeat EXCEPT ![s] = now]
    /\ last_event_at' = [last_event_at EXCEPT ![s] = now]
    /\ UNCHANGED <<jobs_code, jobs_user, backend, store, jstatus, row, hvars,
                   wvars, suser, smeta, sstatus, stoken, sprogress,
                   heartbeats, events, now, fvars, xvars>>

\* one pass through the loop body of _stream_job, up to and including the
\* sleep
TimedCycle(s) ==
    /\ spc[s] = "refresh"
    /\ now < MaxTicks
    /\ jstatus' = RefreshedStatus
    /\ LET m == store
           status == GetStatus(RefreshedStatus, m)
           token == Get(m, "last_token", 0)
           pv == Get(m, "progress", 0)
           text == Get(m, "transcript_so_far", "")
           snap == text # "" /\ (~snapshot_sent[s]
                                 \/ pv - last_snapshot_progress[s] >= SnapshotStep)
           delta == DeltaDue(pv, last_progress[s], token)
           meta_status == IF Get(m, "status", "") # "" THEN m["status"]
                          ELSE status
           completed == meta_status = "completed"
           failed == ~completed /\ (meta_status = "failed" \/ status = "failed")
           beat == /\ ~completed /\ ~failed
                   /\ now - last_heartbeat[s] >= HeartbeatInterval
           e1 == IF snap THEN <<Ev("snapshot", text, pv, 0)>> ELSE <<>>
           e2 == IF delta THEN <<Ev("delta", "", pv, token)>> ELSE <<>>
           e3 == IF completed
                 THEN <<Ev("completed", Get(m, "transcript_key", ""), pv, 0)>>
                 ELSE IF failed
                 THEN <<Ev("error", Get(m, "error_message", "unknown"), pv, 0)>>
                 ELSE IF beat
                 THEN <<Ev("heartbeat", meta_status, pv, 0)>>
                 ELSE <<>>
       IN  /\ snapshot_sent' = [snapshot_sent EXCEPT ![s] = @ \/ snap]
           /\ last_snapshot_progress' = [last_snapshot_progress EXCEPT
                                            ![s] = IF snap THEN pv ELSE @]
           /\ last_progress' = [last_progress EXCEPT
                                            ![s] = IF delta THEN pv ELSE @]
           /\ events' = [events EXCEPT ![s] = @ \o e1 \o e2 \o e3]
           /\ last_heartbeat' = [last_heartbeat EXCEPT
                 ![s] = IF beat THEN now ELSE @]
           /\ last_event_at' = [last_event_at EXCEPT
                 ![s] = IF e1 \o e2 \o e3 # <<>> THEN now ELSE @]
           /\ heartbeats' = [heartbeats EXCEPT
                 ![s] = IF beat THEN @ + 1 ELSE @]
           /\ spc' = [spc EXCEPT ![s] = IF completed \/ failed
                                        THEN AfterTerminal ELSE "refresh"]
           /\ now' = IF completed \/ failed THEN now ELSE now + SleepTicks
    /\ UNCHANGED <<jobs_code, jobs_user, backend, store, row, hvars, wvars,
                   suser, smeta, sstatus, stoken, sprogress, fvars, xvars>>

TimedNext ==
    \/ Worker
    \/ \E s \in Subs : TimedAttach(s)
    \/ \E s \in Subs : TimedCycle(s)

TimedSpec == SubmittedInit /\ [][TimedNext]_vars

\* ------------------------------------------------------- a long recording
\* The same worker run on a recording of more than a hundred tokens (the
\* engine emits one token per word); the submission has returned and
\* nobody is subscribed.
LongNext == Worker \/ WorkerTokenUpTo(LongTokens)

LongSpec == SubmittedInit /\ [][LongNext]_vars

\* ------------------------------------------------- the run with a clock
\* The worker run with the time it takes: here now counts ticks since the
\* run began.  The run was enqueued with job_timeout = JobTimeout.  An
\* InMemoryJob keeps the value in self.timeout and has no code that reads
\* it; an RQ worker raises JobTimeoutException inside the job when the time
\* is up, which ends the run like any other exception.

\* the run is between its start and its end
Running == wpc \notin {"idle", "done"}

\* time passes during the run
RunTick ==
    /\ Running
    /\ now < MaxTicks
    /\ backend = "broker" => now < JobTimeout
    /\ now' = now + 1
    /\ UNCHANGED <<backend, store, jstatus, row, hvars, wvars, svars,
                   jobs_code, jobs_user, last_heartbeat, last_event_at, fvars, xvars>>

\* the RQ worker interrupts a job that has used up its job_timeout
RQTimeout ==
    /\ backend = "broker"
    /\ Running /\ wpc \notin {"except", "return"}
    /\ now = JobTimeout
    /\ wpc' = "except"
    /\ werr' = "timeout"
    /\ UNCHANGED <<backend, store, jstatus, row, hvars, wmeta, parts, svars,
                   jobs_code, jobs_user, tvars, fvars, xvars>>

TimeoutNext == Worker \/ RunTick \/ RQTimeout

TimeoutSpec == SubmittedInit /\ [][TimeoutNext]_vars

\* ------------------------------------------- the HTTP front of the queue
\* Queue resolution, submission and lookup while the broker comes and goes.
\* A request is one step: each handler resolves its queue once, at its
\* start.  Envelopes are followed by their id only; what happens inside
\* one is the subject of the specification above.
MaxRequests == 3

\* QUALITY_PROFILES, and a profile outside it
QualityProfiles == {"fast", "balanced", "precise"}
Profiles == QualityProfiles \cup {"ultra"}

QueueBackends == {"auto", "redis", "memory"}

\* _obtain_queue: the queue it returns, or "unavailable" where it raises 503
ObtainQueue(preferred, lib, up) ==
    IF preferred = "memory" THEN "memory"
    ELSE IF ~lib THEN (IF preferred = "redis" THEN "unavailable" ELSE "memory")
    ELSE IF up THEN "broker"
    ELSE IF preferred = "redis" THEN "unavailable"
    ELSE "memory"

\* the bookkeeping of one _obtain_queue call
Resolve(q) ==
    /\ resolved' = q
    /\ fallback_queue' = (fallback_queue \/ q = "memory")
    /\ fell_back' = (fell_back \/ (q = "memory" /\ queue_backend # "memory"
                                    /\ broker_lib))

\* a submission that stores the audio before it validates anything
BlobsAfterSubmitEager(b, key, code, stored) ==
    IF stored THEN b \cup {key} ELSE b

\* storage.upload_audio comes after the profile check and _obtain_queue
BlobsAfterSubmit(b, key, code, stored) ==
    IF code \in {400, 503} THEN b
    ELSE IF stored THEN b \cup {key} ELSE b

FrontInit ==
    /\ backend = "memory"
    /\ PipelineIdle
    /\ queue_backend \in QueueBackends
    /\ broker_lib \in BOOLEAN
    /\ broker_up \in BOOLEAN
    /\ FrontIdle
    /\ SideIdle

\* the broker becomes unreachable, or reachable again
BrokerFlip ==
    /\ broker_lib
    /\ broker_up' = ~broker_up
    /\ UNCHANGED <<xvars, backend, store, jstatus, row, hvars, wvars, svars,
                   jobs_code, jobs_user, tvars, queue_backend, broker_lib,
                   fallback_queue, mem_jobs, brk_jobs, blobs, rows, requests,
                   resp, resolved, fell_back>>

\* POST /transcribe with the given profile; storage_ok tells whether the
\* blob storage accepts the upload
Submit(profile, storage_ok) ==
    /\ requests < MaxRequests
    /\ requests' = requests + 1
    /\ LET id == requests + 1
           q == IF profile \in QualityProfiles
                THEN ObtainQueue(queue_backend, broker_lib, broker_up)
                ELSE "none"
           code == IF profile \notin QualityProfiles THEN 400
                   ELSE IF q = "unavailable" THEN 503
                   ELSE IF ~storage_ok THEN 500
                   ELSE 200
       IN  /\ IF q = "none"
              THEN UNCHANGED <<resolved, fallback_queue, fell_back>>
              ELSE Resolve(q)
           /\ blobs' = BlobsAfterSubmit(blobs, id, code, storage_ok)
           /\ mem_jobs' = IF code = 200 /\ q = "memory"
                          THEN mem_jobs \cup {id} ELSE mem_jobs
           /\ brk_jobs' = IF code = 200 /\ q = "broker"
                          THEN brk_jobs \cup {id} ELSE brk_jobs
           /\ rows' = IF code = 200 THEN rows \cup {id} ELSE rows
           /\ resp' = [op |-> "submit", code |-> code,
                       job |-> IF code = 200 THEN id ELSE 0]
    /\ UNCHANGED <<xvars, backend, store, jstatus, row, hvars, wvars, svars,
                   jobs_code, jobs_user, tvars, queue_backend, broker_lib,
                   broker_up>>

\* GET /jobs/{job_id} and the attach of _stream_job: resolve the queue,
\* fetch the envelope
Lookup(op, id) ==
    /\ requests < MaxRequests
    /\ requests' = requests + 1
    /\ LET q == ObtainQueue(queue_backend, broker_lib, broker_up)
           found == \/ q = "memory" /\ id \in mem_jobs
                    \/ q = "broker" /\ id \in brk_jobs
       IN  /\ Resolve(q)
           /\ resp' = [op |-> op,
                       code |-> IF q = "unavailable" THEN 503
                                ELSE IF found THEN 200 ELSE 404,
                       job |-> id]
    /\ UNCHANGED <<xvars, backend, store, jstatus, row, hvars, wvars, svars,
                   jobs_code, jobs_user, tvars, queue_backend, broker_lib,
                   broker_up, mem_jobs, brk_jobs, blobs, rows>>

FrontNext ==
    \/ BrokerFlip
    \/ \E profile \in Profiles : \E storage_ok \in BOOLEAN :
          Submit(profile, storage_ok)
    \/ \E op \in {"jobs", "stream"} : \E id \in 1..MaxRequests :
          Lookup(op, id)

FrontSpec == FrontInit /\ [][FrontNext]_vars

\* ------------------------------------------------------- live sessions
\* Times of segments are in quarters of a second, the clock of the session
\* table is in hours; each chunk of speech lasts one second.
MaxLiveRequests == 4
MaxLiveTicks == 2

LIVE_SESSION_TTL_SECONDS == 1
LIVE_RING_DURATION_SECONDS == 20
LIVE_WINDOW_OVERLAP_SECONDS == 4
LIVE_REPEAT_WINDOW_SECONDS == 8
LIVE_REPEAT_MAX_DUPLICATES == 3
LIVE_RECENT_TEXT_HISTORY == 12
NearSeconds == 2
ChunkQuarters == 4

Max(a, b) == IF a >= b THEN a ELSE b
Min(a, b) == IF a <= b THEN a ELSE b
Abs(a) == IF a >= 0 THEN a ELSE 0 - a

\* what a client uploads: nothing, speech, audio that normalizes to zero
\* frames, bytes that cannot be decoded
ChunkData == {"", "speech", "blank", "garbage"}

\* what the decoder can return for a window, times relative to the window
Seg(text, start, end) == [text |-> text, start |-> start, end |-> end]
DecoderSegments ==
    {Seg("hola", 0, 4), Seg("hola", 1, 5), Seg("mundo", 0, 2), Seg("", 0, 4)}
DecoderResults ==
    {<<>>} \cup {<<a>> : a \in DecoderSegments}
           \cup {<<a, b>> : a \in DecoderSegments, b \in DecoderSegments}

\* purge_expired_live_sessions would remove the session at time t
Expired(L, t) ==
    /\ "a" \in L.live_sessions
    /\ t - L.last_activity > LIVE_SESSION_TTL_SECONDS

\* _cleanup_live_session: the entry is popped and, if there was one, its
\* directory is removed with all it holds
Cleanup(L, id) ==
    IF id \in L.live_sessions
    THEN [L EXCEPT !.live_sessions = @ \ {id}, !.directory = FALSE,
                   !.audio = 0, !.chunk_files = {}]
    ELSE L

Purge(L, t) == IF Expired(L, t) THEN Cleanup(L, "a") ELSE L

\* _require_live_session after the purge
Present(L, t) == "a" \in L.live_sessions /\ ~Expired(L, t)

\* AudioRing after r chunks of speech
RingDuration(r) == Min(r * ChunkQuarters, LIVE_RING_DURATION_SECONDS)
RingStart(r) == Max(0, r * ChunkQuarters - RingDuration(r))
ActualStart(r, start_time) == Max(start_time, RingStart(r))
WindowEmpty(r, start_time) ==
    \/ RingDuration(r) <= 0
    \/ ActualStart(r, start_time) - RingStart(r) >= RingDuration(r)

\* the capacity of state.recent_texts for a duplicate limit
RecentHistory(max_duplicates) ==
    Max(8, (IF max_duplicates = 0 THEN 1 ELSE max_duplicates) * 4)

\* the last n of the appended segments, the newest last
LastSegments(segs, n) ==
    IF Len(segs) <= n THEN segs ELSE SubSeq(segs, Len(segs) - n + 1, Len(segs))

\* the tail of state.recent_texts: the appended segments, the newest last
RecentTexts(segs) == LastSegments(segs, LIVE_RECENT_TEXT_HISTORY)

\* the entries of recent that the sum of the repetition rule counts
RepeatCountIn(recent, text, absolute_start, repeat_window) ==
    Cardinality({i \in DOMAIN recent :
        /\ recent[i].text = text
        /\ absolute_start - recent[i].start <= repeat_window})

RepeatCount(segs, text, absolute_start) ==
    RepeatCountIn(RecentTexts(segs), text, absolute_start,
                  LIVE_REPEAT_WINDOW_SECONDS)

\* the repetition rule as push_live_chunk guards and applies it
RepeatRule(recent, text, absolute_start, repeat_window, max_duplicates) ==
    /\ max_duplicates > 0
    /\ RepeatCountIn(recent, text, absolute_start, repeat_window)
           >= max_duplicates

SamePhraseNever(prev, text, absolute_start, absolute_end) == FALSE
\* the test against the last accumulated segment
SamePhrase(prev, text, absolute_start, absolute_end) ==
    /\ prev.text = text
    /\ Abs(prev.start - absolute_start) < NearSeconds
    /\ Abs(prev.end - absolute_end) < NearSeconds

ShouldAppend(segs, last, text, absolute_start, absolute_end) ==
    /\ ~(absolute_end <= last)
    /\ ~(segs # <<>> /\ SamePhrase(segs[Len(segs)], text, absolute_start,
                                   absolute_end))
    /\ ~RepeatRule(RecentTexts(segs), text, absolute_start,
                   LIVE_REPEAT_WINDOW_SECONDS, LIVE_REPEAT_MAX_DUPLICATES)

NextTEndLatest(last, absolute_end) == absolute_end
\* state.last_t_end after a segment with text
NextTEnd(last, absolute_end) == Max(last, absolute_end)

\* the loop over result.segments: the accumulated list and last_t_end
RECURSIVE Promote(_, _, _, _)
Promote(acc, result, window_offset, i) ==
    IF i > Len(result) THEN acc
    ELSE LET seg == result[i]
             absolute_start == window_offset + seg.start
             absolute_end == window_offset + seg.end
         IN  IF seg.text = "" THEN Promote(acc, result, window_offset, i + 1)
             ELSE Promote(
                 [segments |->
                    IF ShouldAppend(acc.segments, acc.last_t_end, seg.text,
                                    absolute_start, absolute_end)
                    THEN Append(acc.segments,
                                Seg(seg.text, absolute_start, absolute_end))
                    ELSE acc.segments,
                  last_t_end |-> NextTEnd(acc.last_t_end, absolute_end)],
                 result, window_offset, i + 1)

LiveInit ==
    /\ backend = "memory"
    /\ PipelineIdle
    /\ queue_backend = "auto"
    /\ broker_lib = TRUE
    /\ broker_up = TRUE
    /\ FrontIdle
    /\ SideIdle

LiveTick ==
    /\ now < MaxLiveTicks
    /\ now' = now + 1
    /\ UNCHANGED <<pvars, last_heartbeat, last_event_at, fvars, xvars>>

\* a step of a live request leaves L in place of live
LiveStep(L) ==
    /\ live' = L
    /\ UNCHANGED <<pvars, tvars, fvars, seg_run, s3, yvars>>

CreateLiveSession ==
    /\ ~live.created
    /\ live.live_requests < MaxLiveRequests
    /\ LiveStep([Purge(live, now) EXCEPT
                    !.live_requests = @ + 1,
                    !.created = TRUE,
                    !.live_sessions = @ \cup {"a"},
                    !.directory = TRUE,
                    !.last_activity = now])

\* push_live_chunk up to the lock: the index is read and the chunk file
\* is written before the lock is taken
PushStart(p, data) ==
    /\ live.ppc[p] = "idle"
    /\ live.live_requests < MaxLiveRequests
    /\ LET begun == [live EXCEPT !.live_requests = @ + 1]
       IN  LiveStep(
             IF ~Present(live, now)
             THEN [Purge(begun, now) EXCEPT !.presp[p] = 404]
             ELSE IF data = ""
             THEN [begun EXCEPT !.presp[p] = 400]
             ELSE [begun EXCEPT
                      !.presp[p] = 0,
                      !.pindex[p] = live.chunk_count,
                      !.chunk_files =
                          {f \in @ : f.index # live.chunk_count}
                          \cup {[index |-> live.chunk_count, data |-> data]},
                      !.ppc[p] = "wait"])

\* what AudioSegment.from_file and _normalize_audio_segment make of the
\* chunk file of this index: "none" if it cannot be read or decoded
Decoded(files, index) ==
    IF \E f \in files : f.index = index /\ f.data = "speech" THEN "speech"
    ELSE IF \E f \in files : f.index = index /\ f.data = "blank" THEN "blank"
    ELSE "none"

\* state.chunk_count after a push that read index before the lock
ChunkCountAfter(count, index) == index + 1

\* the branches that drop the chunk of push p and answer normally
Dropped(L, p, t) ==
    [L EXCEPT !.chunk_count = ChunkCountAfter(@, L.pindex[p]),
              !.dropped_chunks = @ + 1,
              !.last_activity = t,
              !.presp[p] = 200,
              !.answered = @ + 1,
              !.ppc[p] = "idle"]

\* the lock is taken and the chunk decoded; a chunk without audio is
\* dropped here
PushDecode(p) ==
    /\ live.ppc[p] = "wait"
    /\ live.lock = "free"
    /\ LET unlinked == [live EXCEPT !.chunk_files =
                           {f \in @ : f.index # live.pindex[p]}]
       IN  LiveStep(
             IF Decoded(live.chunk_files, live.pindex[p]) = "speech"
             THEN [unlinked EXCEPT !.lock = p, !.ppc[p] = "merge"]
             ELSE Dropped(unlinked, p, now))

\* the frames are written to stream.wav, the window is exported and
\* transcribed, and its segments are promoted
PushMerge(p) ==
    /\ live.ppc[p] = "merge"
    /\ LET merged == [live EXCEPT !.directory = TRUE, !.audio = @ + 1,
                                  !.ring = @ + 1, !.lock = "free",
                                  !.ppc[p] = "idle"]
           window_start ==
               Max(0, live.last_t_end - LIVE_WINDOW_OVERLAP_SECONDS)
           window_offset == ActualStart(merged.ring, window_start)
       IN  IF WindowEmpty(merged.ring, window_start)
           THEN LiveStep(Dropped(merged, p, now))
           ELSE \/ LiveStep([merged EXCEPT !.presp[p] = 500])
                \/ \E result \in DecoderResults :
                     LET acc == Promote([segments |-> live.segments,
                                         last_t_end |-> live.last_t_end],
                                        result, window_offset, 1)
                     IN  LiveStep([merged EXCEPT
                             !.chunk_count =
                                 ChunkCountAfter(@, live.pindex[p]),
                             !.segments = acc.segments,
                             !.last_t_end = acc.last_t_end,
                             !.last_activity = now,
                             !.presp[p] = 200,
                             !.answered = @ + 1])

\* finalize_live_session up to the lock
FinalizeStart ==
    /\ live.fpc = "idle"
    /\ live.live_requests < MaxLiveRequests
    /\ LET begun == [Purge(live, now) EXCEPT !.live_requests = @ + 1]
       IN  LiveStep(IF Present(live, now)
                    THEN [begun EXCEPT !.fpc = "wait", !.fresp = 0]
                    ELSE [begun EXCEPT !.fresp = 404])

\* under the lock: the accumulated audio is transcribed and the row stored
FinalizeLocked ==
    /\ live.fpc = "wait"
    /\ live.lock = "free"
    /\ IF live.audio = 0
       THEN LiveStep([live EXCEPT !.fpc = "idle", !.fresp = 400])
       ELSE \/ LiveStep([live EXCEPT !.last_activity = now,
                                     !.fpc = "idle", !.fresp = 500])
            \/ LiveStep([live EXCEPT
                           !.last_activity = now,
                           !.fpc = "cleanup",
                           !.transcriptions = Append(@, "completed")])

\* after the lock is released: the session is removed and 200 answered
FinalizeCleanup ==
    /\ live.fpc = "cleanup"
    /\ LiveStep([Cleanup(live, "a") EXCEPT
                    !.fpc = "idle", !.fresp = 200, !.finalized = TRUE,
                    !.removed = @ \/ "a" \in live.live_sessions])

\* discard_live_session: the table is read without a purge
DiscardStart(id) ==
    /\ live.dpc = "idle"
    /\ live.live_requests < MaxLiveRequests
    /\ LiveStep([live EXCEPT
                    !.live_requests = @ + 1,
                    !.dpc = IF id \in live.live_sessions
                            THEN "wait" ELSE "idle"])

\* the lock is taken and released
DiscardLocked ==
    /\ live.dpc = "wait"
    /\ live.lock = "free"
    /\ LiveStep([live EXCEPT !.dpc = "cleanup"])

DiscardCleanup ==
    /\ live.dpc = "cleanup"
    /\ LiveStep([Cleanup(live, "a") EXCEPT
                    !.dpc = "idle",
                    !.removed = @ \/ "a" \in live.live_sessions])

LiveNext ==
    \/ LiveTick
    \/ CreateLiveSession
    \/ \E p \in Pushers, data \in ChunkData : PushStart(p, data)
    \/ \E p \in Pushers : PushDecode(p)
    \/ \E p \in Pushers : PushMerge(p)
    \/ FinalizeStart
    \/ FinalizeLocked
    \/ FinalizeCleanup
    \/ \E id \in {"a", "b"} : DiscardStart(id)
    \/ DiscardLocked
    \/ DiscardCleanup

LiveSpec == LiveInit /\ [][LiveNext]_vars

\* ------------------------------------------- the promotion rules
MaxOffers == 3

\* the values LIVE_REPEAT_WINDOW_SECONDS and LIVE_REPEAT_MAX_DUPLICATES
\* can be configured to (quarters of a second; a count)
RepeatWindows == {0, 8}
RepeatMaxima == {0, 2}

\* segments with text offered to the promotion loop, in absolute times
OfferedSegments ==
    {Seg("hola", 0, 4), Seg("hola", 0, 8), Seg("hola", 0, 12),
     Seg("hola", 12, 16), Seg("mundo", 4, 8)}

\* which rule of the promotion loop decides on a segment with text
Verdict(segs, last, seg, repeat_window, max_duplicates) ==
    IF seg.end <= last THEN "covered"
    ELSE IF segs # <<>> /\ SamePhrase(segs[Len(segs)], seg.text, seg.start,
                                      seg.end)
    THEN "adjacent"
    ELSE IF RepeatRule(LastSegments(segs, RecentHistory(max_duplicates)),
                       seg.text, seg.start, repeat_window, max_duplicates)
    THEN "repeat"
    ELSE "accepted"

PromotionInit ==
    /\ backend = "memory"
    /\ PipelineIdle
    /\ queue_backend = "auto"
    /\ broker_lib = TRUE
    /\ broker_up = TRUE
    /\ FrontIdle
    /\ LiveIdle
    /\ SegmentsIdle
    /\ StorageIdle
    /\ EngineIdle
    /\ JobIdle
    /\ PreparationIdle
    /\ \E w \in RepeatWindows, m \in RepeatMaxima :
         promo = [pc |-> "run",
                  repeat_window |-> w,     \* LIVE_REPEAT_WINDOW_SECONDS
                  max_duplicates |-> m,    \* LIVE_REPEAT_MAX_DUPLICATES
                  segments |-> <<>>,       \* state.segments
                  last_t_end |-> 0,
                  offers |-> 0,            \* segments offered so far
                  offered |-> Seg("", 0, 0),   \* the last one
                  verdict |-> "none"]      \* and the rule that decided

\* one pass of the loop over result.segments for a segment with text
Offer(seg) ==
    /\ promo.pc = "run"
    /\ promo.offers < MaxOffers
    /\ LET verdict == Verdict(promo.segments, promo.last_t_end, seg,
                              promo.repeat_window, promo.max_duplicates)
       IN  promo' = [promo EXCEPT
                        !.offers = @ + 1,
                        !.offered = seg,
                        !.verdict = verdict,
                        !.segments = IF verdict = "accepted"
                                     THEN Append(@, seg) ELSE @,
                        !.last_t_end = NextTEnd(@, seg.end)]
    /\ UNCHANGED <<pvars, tvars, fvars, live, seg_run, s3, eng, job, prep>>

PromotionNext == \E seg \in OfferedSegments : Offer(seg)

PromotionSpec == PromotionInit /\ [][PromotionNext]_vars

\* ---------------------------------------- the shared engine adapter
MaxTranscribes == 2

\* the threads that call transcribe on the adapter get_transcriber gave
Callers == {"t1", "t2"}

\* the keyword options a call passes on to the engine, in the order
\* call_kwargs lists them
EngineKwargs == <<"batch_size", "vad_filter">>
KwargNames == {EngineKwargs[i] : i \in DOMAIN EngineKwargs}

\* what a decode that the engine accepted can end in: segments, an
\* HTTPError or URLError, any other exception
DecodeOutcomes == {"ok", "url", "error"}

\* the keyword a TypeError names: the first of the call that the engine
\* does not accept
BadKey(passed, accepted) ==
    EngineKwargs[CHOOSE i \in DOMAIN EngineKwargs :
        /\ EngineKwargs[i] \in passed \ accepted
        /\ \A j \in 1..(i - 1) : EngineKwargs[j] \notin passed \ accepted]

EngineInit ==
    /\ backend = "memory"
    /\ PipelineIdle
    /\ queue_backend = "auto"
    /\ broker_lib = TRUE
    /\ broker_up = TRUE
    /\ FrontIdle
    /\ LiveIdle
    /\ SegmentsIdle
    /\ StorageIdle
    /\ PromotionIdle
    /\ JobIdle
    /\ PreparationIdle
    /\ \E accepted \in SUBSET KwargNames, vad \in BOOLEAN, sig \in BOOLEAN :
         eng = [pc |-> "run",
                accepted |-> accepted,    \* what the engine's transcribe takes
                signature |-> sig,        \* its signature can be inspected
                supported |-> {},         \* self._supported_kwargs
                inspected |-> FALSE,      \* it has been computed
                cached |-> FALSE,         \* the key is in _transcriber_cache
                model |-> FALSE,          \* self._model is loaded
                lock |-> "free",          \* who holds self._lock
                decoding |-> {},          \* who is inside the engine's decode
                base_vad |-> vad,         \* the filter is asked for
                begun |-> 0,              \* transcribe calls begun
                cpc |-> [c \in Callers |-> "idle"],
                supports_vad |-> [c \in Callers |-> FALSE],
                options |-> [c \in Callers |-> {}],
                attempts |-> [c \in Callers |-> <<>>],
                calls |-> [c \in Callers |-> <<>>],
                outcome |-> [c \in Callers |-> "none"]]

EngineStep(E) ==
    /\ eng' = E
    /\ UNCHANGED <<pvars, tvars, fvars, live, seg_run, s3, promo, job, prep>>

\* get_transcriber: every caller of one key is handed the cached adapter
GetTranscriber(c) ==
    /\ eng.pc = "run"
    /\ eng.cpc[c] \in {"idle", "done"}
    /\ eng.begun < MaxTranscribes
    /\ EngineStep([eng EXCEPT !.cached = TRUE,
                              !.begun = @ + 1,
                              !.calls[c] = <<>>,
                              !.outcome[c] = "none",
                              !.cpc[c] = "lock"])

\* transcribe: with self._lock
TakeLock(c) ==
    /\ eng.pc = "run"
    /\ eng.cpc[c] = "lock"
    /\ eng.lock = "free"
    /\ EngineStep([eng EXCEPT !.lock = c, !.cpc[c] = "ensure"])

\* _get_supported_transcribe_kwargs: the names in the signature of the
\* engine, or the default names when it cannot be read or shows none
SupportedKwargs(E) ==
    IF E.inspected THEN E.supported
    ELSE IF ~E.signature \/ E.accepted = {} THEN KwargNames
    ELSE E.accepted

AttemptsKeepFilter(base_vad, supports_vad) ==
    IF base_vad /\ supports_vad THEN <<TRUE, TRUE, FALSE>> ELSE <<FALSE>>
\* the attempts list of a call
Attempts(base_vad, supports_vad) ==
    IF base_vad /\ supports_vad THEN <<TRUE, FALSE>> ELSE <<FALSE>>

\* _ensure_model under the lock; the lock is released and the options of
\* the call are worked out
EnsureModel(c) ==
    /\ eng.pc = "run"
    /\ eng.cpc[c] = "ensure"
    /\ LET supported == SupportedKwargs(eng)
       IN  EngineStep([eng EXCEPT
               !.model = TRUE,
               !.lock = "free",
               !.supported = supported,
               !.inspected = TRUE,
               !.supports_vad[c] = "vad_filter" \in supported,
               !.options[c] = {"batch_size"} \cap supported,
               !.attempts[c] =
                   Attempts(eng.base_vad, "vad_filter" \in supported),
               !.cpc[c] = "call"])

\* self._model.transcribe is entered
DecodeStart(c) ==
    /\ eng.pc = "run"
    /\ eng.cpc[c] = "call"
    /\ EngineStep([eng EXCEPT !.decoding = @ \cup {c},
                              !.cpc[c] = "decoding"])

\* the value of vad_filter in the keywords of a call
VadFlag(supports_vad, use_vad) ==
    IF ~supports_vad THEN "absent" ELSE IF use_vad THEN "on" ELSE "off"

\* after an HTTPError or URLError: the next attempt, or the error is raised
RetriesWithoutVad(supports_vad, use_vad) == supports_vad /\ use_vad

\* self._model.transcribe returns or raises, and the handlers of the
\* attempt loop run
DecodeEnd(c) ==
    /\ eng.pc = "run"
    /\ eng.cpc[c] = "decoding"
    /\ LET use_vad == Head(eng.attempts[c])
           flag == VadFlag(eng.supports_vad[c], use_vad)
           passed == eng.options[c]
                       \cup (IF eng.supports_vad[c] THEN {"vad_filter"}
                             ELSE {})
           left == [eng EXCEPT !.decoding = @ \ {c}]
           Call(out, key) == [vad |-> flag, out |-> out, key |-> key]
       IN  IF ~(passed \subseteq eng.accepted)
           THEN LET bad_key == BadKey(passed, eng.accepted)
                IN  EngineStep([left EXCEPT
                        !.calls[c] = Append(@, Call("type", bad_key)),
                        !.options[c] = @ \ {bad_key},
                        !.supports_vad[c] = @ /\ bad_key # "vad_filter",
                        !.supported = @ \ {bad_key},
                        !.cpc[c] = "call"])
           ELSE \E out \in DecodeOutcomes :
                  EngineStep(
                    IF out = "ok"
                    THEN [left EXCEPT !.calls[c] = Append(@, Call(out, "")),
                                      !.outcome[c] = "returned",
                                      !.cpc[c] = "done"]
                    ELSE IF out = "url"
                            /\ RetriesWithoutVad(eng.supports_vad[c], use_vad)
                    THEN [left EXCEPT !.calls[c] = Append(@, Call(out, "")),
                                      !.attempts[c] = Tail(@),
                                      !.cpc[c] = "call"]
                    ELSE [left EXCEPT !.calls[c] = Append(@, Call(out, "")),
                                      !.outcome[c] = "raised",
                                      !.cpc[c] = "done"])

EngineNext ==
    \/ \E c \in Callers : GetTranscriber(c)
    \/ \E c \in Callers : TakeLock(c)
    \/ \E c \in Callers : EnsureModel(c)
    \/ \E c \in Callers : DecodeStart(c)
    \/ \E c \in Callers : DecodeEnd(c)

EngineSpec == EngineInit /\ [][EngineNext]_vars

\* ------------------------------------------ process_transcription
MaxEventLimit == 3
MaxCallbacks == 2

\* the values settings.debug_event_limit can take (config.py: ge=1)
EventLimits == 1..MaxEventLimit

\* the messages of the exceptions a decode raises in the model
DecodeErrors == {"could not locate cudnn", "out of memory"}

\* CUDA_ERROR_PATTERNS, as far as the messages of the model go
CudaErrorPatterns == {"cudnn", "cublas", "cuda driver"}

\* the lower-cased message contains the token
Contains(message, token) ==
    \/ token = "cudnn" /\ message = "could not locate cudnn"
    \/ token = message

\* _is_cuda_dependency_error
IsCudaDependencyError(message) ==
    /\ message # ""
    /\ \E token \in CudaErrorPatterns : Contains(message, token)

EventLimitPlusOne(debug_event_limit) == debug_event_limit + 1
\* limit = max(1, settings.debug_event_limit or 100)
EventLimit(debug_event_limit) ==
    Max(1, IF debug_event_limit = 0 THEN 100 ELSE debug_event_limit)

TrimOldest(list, limit) ==
    IF Len(list) > limit THEN SubSeq(list, 1, limit) ELSE list
\* events[-limit:] when the list is longer than the limit
Trim(list, limit) ==
    IF Len(list) > limit
    THEN SubSeq(list, Len(list) - limit + 1, Len(list))
    ELSE list

\* append_debug_event on the row of J: nothing happens without a row
AppendDebugEvent(J, stage) ==
    IF ~J.row_exists THEN J
    ELSE LET event == [stage |-> stage, n |-> Len(J.log) + 1]
         IN  [J EXCEPT
                 !.debug_events =
                     Trim(Append(@, event), EventLimit(J.debug_event_limit)),
                 !.log = Append(@, event)]

JobInit ==
    /\ backend = "memory"
    /\ PipelineIdle
    /\ queue_backend = "auto"
    /\ broker_lib = TRUE
    /\ broker_up = TRUE
    /\ FrontIdle
    /\ LiveIdle
    /\ SegmentsIdle
    /\ StorageIdle
    /\ PromotionIdle
    /\ EngineIdle
    /\ PreparationIdle
    /\ \E limit \in EventLimits, force \in BOOLEAN, exists \in BOOLEAN,
          file \in BOOLEAN, device \in {"gpu", "cpu"} :
         job = [pc |-> "start",
                debug_event_limit |-> limit,
                whisper_force_cuda |-> force,
                row_exists |-> exists,       \* the Transcription row exists
                file_exists |-> file,        \* stored_path is on disk
                requested_device |-> device,
                status |-> "pending",        \* Transcription.status
                device_preference |-> "none",   \* of the row
                debug_events |-> <<>>,       \* of the row
                log |-> <<>>,                \* every event ever appended
                callbacks |-> 0,             \* debug_callback calls
                decodes |-> <<>>,            \* the decodes made, in order
                used_cpu_fallback |-> FALSE]

JobStep(J) ==
    /\ job' = J
    /\ UNCHANGED <<pvars, tvars, fvars, live, seg_run, s3, promo, eng, prep>>

\* the processing-start event
ProcessStart ==
    /\ job.pc = "start"
    /\ JobStep([AppendDebugEvent(job, "processing-start") EXCEPT
                   !.pc = "open"])

\* the row is marked PROCESSING; a missing row or a missing file ends
\* the run
ProcessOpen ==
    /\ job.pc = "open"
    /\ JobStep(
         IF ~job.row_exists THEN [job EXCEPT !.pc = "returned"]
         ELSE IF ~job.file_exists
         THEN [AppendDebugEvent([job EXCEPT
                                    !.status = "failed",
                                    !.device_preference =
                                        job.requested_device],
                                "processing-missing-file")
                  EXCEPT !.pc = "returned"]
         ELSE [job EXCEPT !.status = "processing",
                          !.device_preference = job.requested_device,
                          !.pc = "decode"])

\* the transcriber reports a stage through debug_callback
DebugCallback ==
    /\ job.pc \in {"decode", "retry"}
    /\ job.callbacks < MaxCallbacks
    /\ JobStep([AppendDebugEvent(job, "transcribe.segment") EXCEPT
                   !.callbacks = @ + 1])

ShouldRetryCpuNever(force_cuda, requested_device, message) == FALSE
\* the test of the except branch around the first decode
ShouldRetryCpu(force_cuda, requested_device, message) ==
    /\ ~force_cuda
    /\ requested_device = "gpu"
    /\ IsCudaDependencyError(message)

\* _transcribe_once on the transcriber of the requested device
FirstDecode ==
    /\ job.pc = "decode"
    /\ \E out \in {"ok"} \cup DecodeErrors :
         LET done == [job EXCEPT !.decodes =
                         Append(@, [device |-> job.requested_device,
                                    out |-> out])]
         IN  JobStep(
               IF out = "ok" THEN [done EXCEPT !.pc = "store"]
               ELSE IF ShouldRetryCpu(job.whisper_force_cuda,
                                      job.requested_device, out)
               THEN [AppendDebugEvent(done, "device.fallback") EXCEPT
                        !.used_cpu_fallback = TRUE,
                        !.pc = "retry"]
               ELSE [done EXCEPT !.pc = "fail"])

\* _transcribe_once on get_transcriber(resolved_model, "cpu")
CpuDecode ==
    /\ job.pc = "retry"
    /\ \E out \in {"ok"} \cup DecodeErrors :
         JobStep([job EXCEPT
                     !.decodes = Append(@, [device |-> "cpu", out |-> out]),
                     !.pc = IF out = "ok" THEN "store" ELSE "fail"])

\* what effective_device() of the transcriber in use is labelled as
EffectiveDevices(used_cpu_fallback, requested_device) ==
    IF used_cpu_fallback THEN {"cpu"} ELSE {requested_device, "cpu"}

\* the result is stored, the row COMPLETED, processing-complete appended
ProcessStore ==
    /\ job.pc = "store"
    /\ \E effective_device \in EffectiveDevices(job.used_cpu_fallback,
                                                 job.requested_device) :
         JobStep([AppendDebugEvent([job EXCEPT
                                       !.status = "completed",
                                       !.device_preference =
                                           effective_device],
                                   "processing-complete")
                     EXCEPT !.pc = "returned"])

\* the outer except: the row FAILED, processing-error appended
ProcessFail ==
    /\ job.pc = "fail"
    /\ JobStep([AppendDebugEvent([job EXCEPT !.status = "failed"],
                                 "processing-error")
                   EXCEPT !.pc = "returned"])

JobNext ==
    \/ ProcessStart
    \/ ProcessOpen
    \/ DebugCallback
    \/ FirstDecode
    \/ CpuDecode
    \/ ProcessStore
    \/ ProcessFail

JobSpec == JobInit /\ [][JobNext]_vars

\* -------------------------------------------- model preparation
MaxPreparationRequests == 3

\* the threads that call request_model_preparation for the key
Requesters == {"r1", "r2"}

\* the words of an exception message that _is_vad_auth_error looks for
LegacyVadMessage == {"vad", "whisperx", "autentic", "huggingface"}
PreparationMessages ==
    {LegacyVadMessage,
     {"vad", "whisperx", "requires", "token"},
     {"huggingface", "auth"},
     {"vad", "unavailable"},
     {"disk"}}

\* what prepare_transcriber ends in: the transcriber is prepared, it
\* raises WhisperXVADUnavailableError, or another exception with a message
PrimaryOutcomes ==
    {[kind |-> "ok", message |-> {}],
     [kind |-> "WhisperXVADUnavailableError", message |-> {"auth"}]}
    \cup {[kind |-> "RuntimeError", message |-> m] :
             m \in PreparationMessages}

IsVadAuthErrorNever(message) == FALSE
\* _is_vad_auth_error
IsVadAuthError(message) ==
    /\ message # {}
    /\ "vad" \in message
    /\ message \cap {"auth", "autentic", "token"} # {}
    /\ \/ "huggingface" \in message
       \/ "whisperx" \in message /\ "requires" \in message

\* the except branches of _prepare_model_task that call _prepare_fallback
FallsBack(outcome) ==
    \/ outcome.kind = "WhisperXVADUnavailableError"
    \/ outcome.kind = "RuntimeError" /\ IsVadAuthError(outcome.message)

\* _update_model_progress on the entry of the key
UpdateModelProgress(P, status, progress) ==
    [P EXCEPT !.status = status, !.progress = Max(0, Min(progress, 100))]

\* the callback of _progress_callback_factory
ProgressCallback(P, progress) ==
    UpdateModelProgress(P, IF progress >= 100 THEN "ready"
                           ELSE "downloading", progress)

PreparationInit ==
    /\ backend = "memory"
    /\ PipelineIdle
    /\ queue_backend = "auto"
    /\ broker_lib = TRUE
    /\ broker_up = TRUE
    /\ FrontIdle
    /\ LiveIdle
    /\ SegmentsIdle
    /\ StorageIdle
    /\ PromotionIdle
    /\ EngineIdle
    /\ JobIdle
    /\ \E primary \in PrimaryOutcomes, fallback \in BOOLEAN :
         prep = [pc |-> "run",
                 primary |-> primary,      \* what prepare_transcriber does
                 fallback |-> fallback,    \* the fallback can be prepared
                 status |-> "idle",        \* _model_progress[key].status
                 progress |-> 0,
                 future |-> "none",        \* _model_futures[key]
                 tpc |-> "idle",           \* position of the task
                 rpc |-> [r \in Requesters |-> "idle"],
                 seen |-> [r \in Requesters |-> 0],   \* info.progress
                 preparation_requests |-> 0]

PreparationStep(P) ==
    /\ prep' = P
    /\ UNCHANGED <<pvars, tvars, fvars, live, seg_run, s3, promo, eng, job>>

\* request_model_preparation up to the futures lock: a ready key is
\* answered at once
RequestStatus(r) ==
    /\ prep.pc = "run"
    /\ prep.rpc[r] = "idle"
    /\ prep.preparation_requests < MaxPreparationRequests
    /\ PreparationStep([prep EXCEPT
           !.preparation_requests = @ + 1,
           !.seen[r] = prep.progress,
           !.rpc[r] = IF prep.status = "ready" THEN "idle" ELSE "submit"])

\* under _model_futures_lock: the task is submitted unless one is running
RequestSubmit(r) ==
    /\ prep.pc = "run"
    /\ prep.rpc[r] = "submit"
    /\ PreparationStep(
         IF prep.future \in {"none", "done"}
         THEN [UpdateModelProgress(prep, "checking", Max(prep.seen[r], 1))
                  EXCEPT !.future = "running", !.tpc = "start",
                         !.rpc[r] = "idle"]
         ELSE [prep EXCEPT !.rpc[r] = "idle"])

\* _prepare_model_task: callback(5, ...)
TaskStart ==
    /\ prep.pc = "run"
    /\ prep.tpc = "start"
    /\ PreparationStep([ProgressCallback(prep, 5) EXCEPT !.tpc = "prepare"])

\* prepare_transcriber returns, having reported 100, or raises
TaskPrepare ==
    /\ prep.pc = "run"
    /\ prep.tpc = "prepare"
    /\ PreparationStep(
         IF prep.primary.kind = "ok"
         THEN [ProgressCallback(prep, 100) EXCEPT !.tpc = "finish"]
         ELSE IF FallsBack(prep.primary)
         THEN [prep EXCEPT !.tpc = "fallback"]
         ELSE [UpdateModelProgress(prep, "error", 0) EXCEPT
                  !.tpc = "idle", !.future = "done"])

\* the final update of a prepared transcriber
TaskFinish ==
    /\ prep.pc = "run"
    /\ prep.tpc = "finish"
    /\ PreparationStep([UpdateModelProgress(prep, "ready", 100) EXCEPT
                           !.tpc = "idle", !.future = "done"])

\* _prepare_fallback
TaskFallback ==
    /\ prep.pc = "run"
    /\ prep.tpc = "fallback"
    /\ PreparationStep(
         IF prep.fallback
         THEN [UpdateModelProgress(prep, "ready", 100) EXCEPT
                  !.tpc = "idle", !.future = "done"]
         ELSE [UpdateModelProgress(prep, "error", 0) EXCEPT
                  !.tpc = "idle", !.future = "done"])

PreparationNext ==
    \/ \E r \in Requesters : RequestStatus(r)
    \/ \E r \in Requesters : RequestSubmit(r)
    \/ TaskStart
    \/ TaskPrepare
    \/ TaskFinish
    \/ TaskFallback

PreparationSpec == PreparationInit /\ [][PreparationNext]_vars

\* a request that has begun returns, and the executor runs its task
PreparationFairSpec ==
    /\ PreparationSpec
    /\ WF_vars(\E r \in Requesters : RequestSubmit(r))
    /\ WF_vars(TaskStart)
    /\ WF_vars(TaskPrepare)
    /\ WF_vars(TaskFinish)
    /\ WF_vars(TaskFallback)

\* ------------------------------------- the segments of a queued job
MaxEngineSegments == 3

\* what faster-whisper can yield, times in quarters of a second
EngineSegments == {Seg("hola", 0, 4), Seg("hola", 1, 5), Seg("mundo", 4, 8)}

RECURSIVE SeqsUpTo(_, _)
SeqsUpTo(S, n) ==
    IF n = 0 THEN {<<>>}
    ELSE SeqsUpTo(S, n - 1)
         \cup {Append(q, x) : q \in {r \in SeqsUpTo(S, n - 1) :
                                      Len(r) = n - 1}, x \in S}

\* the job runs on a worker and the engine is about to be iterated
SegmentsInit ==
    /\ backend = "memory"
    /\ PipelineIdle
    /\ queue_backend = "auto"
    /\ broker_lib = TRUE
    /\ broker_up = TRUE
    /\ FrontIdle
    /\ LiveIdle
    /\ StorageIdle
    /\ AuxIdle
    /\ seg_run \in {[NoSegments EXCEPT !.engine = e, !.tpc = "loop",
                                       !.row_status = "transcribing"] :
                       e \in SeqsUpTo(EngineSegments, MaxEngineSegments)}

SegmentsStep(R) ==
    /\ seg_run' = R
    /\ UNCHANGED <<pvars, tvars, fvars, live, s3, yvars>>

\* one iteration of the loop over the engine's segments
CollectSegment ==
    /\ seg_run.tpc = "loop"
    /\ Len(seg_run.collected) < Len(seg_run.engine)
    /\ LET segment == seg_run.engine[Len(seg_run.collected) + 1]
           start == segment.start
           end == IF segment.end = 0 THEN start ELSE segment.end
       IN  SegmentsStep([seg_run EXCEPT
               !.collected = Append(@, Seg(segment.text, start, end))])

\* transcribe returns and transcribe_job writes the result to the meta
ReturnSegments ==
    /\ seg_run.tpc = "loop"
    /\ Len(seg_run.collected) = Len(seg_run.engine)
    /\ SegmentsStep([seg_run EXCEPT !.tpc = "returned",
                                    !.meta_segments = seg_run.collected])

\* transcribe_job completes the row
StoreSegments ==
    /\ seg_run.tpc = "returned"
    /\ SegmentsStep([seg_run EXCEPT !.tpc = "stored",
                                    !.row_status = "completed",
                                    !.row_segments = seg_run.collected])

SegmentsNext == CollectSegment \/ ReturnSegments \/ StoreSegments

SegmentsSpec == SegmentsInit /\ [][SegmentsNext]_vars

\* ------------------------------------------------------ S3StorageClient
MaxStorageCalls == 4

StorageInit ==
    /\ backend = "memory"
    /\ PipelineIdle
    /\ queue_backend = "auto"
    /\ broker_lib = TRUE
    /\ broker_up = TRUE
    /\ FrontIdle
    /\ LiveIdle
    /\ SegmentsIdle
    /\ AuxIdle
    /\ s3 \in {[FreshStorage EXCEPT !.endpoint_up = up] : up \in BOOLEAN}

StorageStep(S) ==
    /\ s3' = S
    /\ UNCHANGED <<pvars, tvars, fvars, live, seg_run, yvars>>

\* the endpoint goes away or comes back
EndpointFlip ==
    /\ s3' = [s3 EXCEPT !.endpoint_up = ~@]
    /\ UNCHANGED <<pvars, tvars, fvars, live, seg_run, yvars>>

\* S3StorageClient(): a new instance takes the place of c
Construct(c) ==
    /\ s3.epc[c] = "idle"
    /\ s3.storage_calls < MaxStorageCalls
    /\ StorageStep([s3 EXCEPT !.storage_calls = @ + 1,
                              !.local_mode[c] = FALSE,
                              !.client[c] = TRUE])

\* ensure_buckets up to the probe: the cache is read under the lock; an
\* instance without a client fills the cache and returns
EnsureCheck(c) ==
    /\ s3.epc[c] = "idle"
    /\ s3.storage_calls < MaxStorageCalls
    /\ LET begun == [s3 EXCEPT !.storage_calls = @ + 1,
                               !.late[c] = s3.unreachable_seen]
       IN  StorageStep(
             IF s3.bucket_state THEN begun
             ELSE IF ~s3.client[c] THEN [begun EXCEPT !.bucket_state = TRUE]
             ELSE [begun EXCEPT !.epc[c] = "probe"])

\* _activate_local_mode(error): the warning is logged unless this instance
\* is in local mode already
WarningsAfter(w, was_local) == IF was_local THEN w ELSE w + 1

\* head_bucket (and create_bucket) on the buckets, outside the lock
EnsureProbe(c) ==
    /\ s3.epc[c] = "probe"
    /\ LET probed == [s3 EXCEPT
                         !.probes = @ + 1,
                         !.late_contacts = IF s3.late[c] THEN @ + 1 ELSE @]
       IN  StorageStep(
             IF s3.endpoint_up
             THEN [probed EXCEPT !.epc[c] = "store"]
             ELSE [probed EXCEPT
                      !.epc[c] = "idle",
                      !.warnings = WarningsAfter(@, s3.local_mode[c]),
                      !.local_mode[c] = TRUE,
                      !.bucket_state = FALSE,
                      !.client[c] = FALSE,
                      !.unreachable_seen = TRUE])

\* the cache is filled under the lock
EnsureStore(c) ==
    /\ s3.epc[c] = "store"
    /\ StorageStep([s3 EXCEPT !.epc[c] = "idle", !.bucket_state = TRUE])

\* the branch an upload, download, delete or listing takes
VariantOf(local, has_client) ==
    IF local THEN "local" ELSE IF ~has_client THEN "memory" ELSE "remote"

\* upload_audio, download_audio and the other operations on instance c
Operate(c) ==
    /\ s3.storage_calls < MaxStorageCalls
    /\ LET used == VariantOf(s3.local_mode[c], s3.client[c])
       IN  StorageStep([s3 EXCEPT
               !.storage_calls = @ + 1,
               !.operations = @ + 1,
               !.variant = used,
               !.late_contacts =
                   IF s3.unreachable_seen /\ used = "remote"
                   THEN @ + 1 ELSE @])

StorageNext ==
    \/ EndpointFlip
    \/ \E c \in Clients : Construct(c)
    \/ \E c \in Clients : EnsureCheck(c)
    \/ \E c \in Clients : EnsureProbe(c)
    \/ \E c \in Clients : EnsureStore(c)
    \/ \E c \in Clients : Operate(c)

StorageSpec == StorageInit /\ [][StorageNext]_vars

\* ------------------------------------------------------------ properties
Status(m) == Get(m, "status", "")

Progress(m) == Get(m, "progress", 0)

Terminal(e) == e.event \in {"completed", "error"}

Received(s, name) == {i \in 1..Len(events[s]) : events[s][i].event = name}

InLoop(s) == spc[s] \in {"refresh", "progress", "status"}

WorkerStep == wpc' # wpc \/ parts' # parts

HandlerStep == hpc' # hpc

\* C1: a subscriber's event sequence holds at most one terminal event
\* (completed or error), and a terminal event is the last event of the
\* sequence.
C1_TerminalEventIsLast ==
    \A s \in Subs : \A i \in 1..Len(events[s]) :
        Terminal(events[s][i]) => i = Len(events[s])

C1_Witness ==
    \E s \in Subs :
        /\ Len(events[s]) >= 2
        /\ events[s][Len(events[s])].event = "completed"
        /\ spc[s] = "done"

\* C2: once the envelope has status completed, every subscriber of the job
\* that is attached as the owner eventually holds exactly one completed
\* event and its generator has ended (unless the client went away).
C2_CompletedReachesSubscriber ==
    \A s \in Subs :
        (InLoop(s) /\ suser[s] = "owner" /\ Status(store) = "completed")
            ~> (\/ spc[s] = "cancelled"
                \/ spc[s] = "done" /\ Cardinality(Received(s, "completed")) = 1)

\* C3: the progress of the envelope, as a fetch or refresh returns it, never
\* decreases from one moment to the next.
C3_ProgressNeverDecreases ==
    [][Progress(store') >= Progress(store)]_vars

\* C4: a catalog row in state completed has a transcript_key and a
\* completed_at.
C4_CompletedRowHasKeyAndTime ==
    (row.exists /\ row.status = "completed")
        => (row.transcript_key # "" /\ row.completed_at # "")

C4_Witness == row.exists /\ row.status = "completed"

\* C5: in every state of the envelope, status completed implies that
\* transcript_key is present and status failed implies that error_message is
\* present.
C5_TerminalStatusHasItsField ==
    /\ Status(store) = "completed" => Has(store, "transcript_key")
    /\ Status(store) = "failed" => Has(store, "error_message")

\* C6: when the run has failed, the envelope ends with status failed and an
\* error_message and the catalog row ends in state failed.
C6_FailureIsRecorded ==
    (wpc = "done" /\ werr # "" /\ hpc = "done")
        => /\ Status(store) = "failed"
           /\ Has(store, "error_message")
           /\ row.exists /\ row.status = "failed"

\* C7: the queued catalog row exists before the worker starts, and no run
\* ends with the envelope completed while the row is queued or missing.
C7_RowExistsBeforeWorkerRuns ==
    /\ wpc # "idle" => row.exists
    /\ (wpc = "done" /\ Status(store) = "completed")
           => (row.exists /\ row.status # "queued")

\* C8: once a subscriber holds the completed event, the catalog row is
\* completed with a transcript_key and the segments of the run.
C8_CompletedEventAfterCatalog ==
    \A s \in Subs :
        Received(s, "completed") # {}
            => /\ row.exists /\ row.status = "completed"
               /\ row.transcript_key # "" /\ row.segments = "run"

ValidEdges ==
    {<<"queued", "transcribing">>, <<"transcribing", "completed">>,
     <<"transcribing", "failed">>, <<"queued", "failed">>}

C10_OnlyValidEdges ==
    [][(row.exists /\ row'.exists /\ row'.status # row.status)
          => <<row.status, row'.status>> \in ValidEdges]_vars

\* C11: a subscriber that is not the owner of the envelope receives exactly
\* the event sequence of a subscriber to an id that does not exist, one
\* error event with detail job-not-found, and its generator has ended; a
\* GET /jobs/{job_id} by such a user is answered 404, as for an unknown id.
C11_ForeignSeesNotFound ==
    /\ \A s \in Subs :
          (spc[s] # "init" /\ suser[s] # "owner")
              => (events[s] = <<NotFound>> /\ spc[s] = "done")
    /\ jobs_user \notin {"nobody", "owner"} => jobs_code = 404

C11_Witness ==
    /\ Has(store, "last_token")
    /\ \E s \in Subs : suser[s] = "other" /\ events[s] = <<NotFound>>
    /\ jobs_user = "other" /\ jobs_code = 404

\* the deltas a subscriber holds, in order
Deltas(s) == SelectSeq(events[s], LAMBDA e : e.event = "delta")

\* the progress the next delta has to exceed: that of the last delta sent,
\* or the progress seen when attaching if none was sent yet
DeltaBasis(s) ==
    IF Deltas(s) = <<>> THEN last_progress[s]
    ELSE Deltas(s)[Len(Deltas(s))].progress

\* the step of a poll cycle that reads progress and emits
ProgressStep(s) == spc[s] = "progress" /\ spc'[s] = "status"

\* the progress of the last delta sent, 0 if none was sent
LastDeltaProgress(s) ==
    IF Deltas(s) = <<>> THEN 0 ELSE Deltas(s)[Len(Deltas(s))].progress

\* C12 as stated: a poll cycle emits a delta exactly when the progress it
\* observes exceeds the progress of the last delta sent and it observed a
\* last_token.
C12_DeltaWhenAboveLastDelta ==
    [][\A s \in Subs :
          ProgressStep(s) =>
              ((Len(Deltas(s)') = Len(Deltas(s)) + 1)
                  <=> (sprogress'[s] > LastDeltaProgress(s)
                          /\ stoken[s] # 0))]_vars

\* C12 as amended: a poll cycle emits a delta exactly when the progress it
\* observes exceeds the progress of the last delta sent (the progress seen when
\* attaching, if none was sent) and it observed a last_token; the delta
\* carries that last_token; a cycle emits at most one delta and no other
\* step emits one; the deltas of a subscriber have increasing progress.
C12_DeltaWhenProgressAdvances ==
    /\ [][\A s \in Subs :
            IF ProgressStep(s)
            THEN /\ Len(Deltas(s)') <= Len(Deltas(s)) + 1
                 /\ (Len(Deltas(s)') = Len(Deltas(s)) + 1)
                        <=> (sprogress'[s] > DeltaBasis(s) /\ stoken[s] # 0)
                 /\ Len(Deltas(s)') = Len(Deltas(s)) + 1
                        => /\ Deltas(s)'[Len(Deltas(s)')].token = stoken[s]
                           /\ Deltas(s)'[Len(Deltas(s)')].progress
                                  = sprogress'[s]
            ELSE Deltas(s)' = Deltas(s)]_vars
    /\ [](\A s \in Subs : \A i, j \in 1..Len(Deltas(s)) :
            i < j => Deltas(s)[i].progress < Deltas(s)[j].progress)

C12_Witness ==
    \E s \in Subs :
        /\ Len(Deltas(s)) = 2
        /\ Deltas(s)[1].progress = 1 /\ Deltas(s)[2].progress = 2

\* the subscriber attached when the progress of the envelope was above 0,
\* that is after the worker had processed a token
AttachedInFlight(s) ==
    InLoop(s) /\ (~snapshot_sent[s] \/ Received(s, "snapshot") # {})

C14_ReconnectGetsSnapshot ==
    \A s \in Subs :
        /\ (spc[s] = "cancelled") ~> (wpc = "done")
        /\ (AttachedInFlight(s) /\ suser[s] = "owner")
              ~> (\/ spc[s] = "cancelled"
                  \/ /\ Received(s, "snapshot") # {}
                     /\ spc[s] = "done")

\* the texts of the first k tokens, one after the other (token i stands
\* for its own text)
TextOfTokens(k) == [i \in 1..k |-> i]

\* C15: right after the worker has processed its k-th token the envelope
\* meta holds last_token = the k-th token, segment = the segment index of
\* that token, progress = k and transcript_so_far = the texts of the k
\* tokens.
C15_MetaAfterToken ==
    [][parts' = parts + 1
         => /\ Get(store', "last_token", 0) = parts'
            /\ Get(store', "segment", -1) = parts' - 1
            /\ Get(store', "progress", 0) = parts'
            /\ Get(store', "transcript_so_far", <<>>)
                  = TextOfTokens(parts')]_vars

\* a step in which the subscriber is sent a heartbeat
HeartbeatStep(s) == heartbeats'[s] = heartbeats[s] + 1

\* a step in which the subscriber is sent a snapshot or a delta
ProgressEventStep(s) ==
    \/ last_progress'[s] # last_progress[s]
    \/ last_snapshot_progress'[s] # last_snapshot_progress[s]

\* C16: a heartbeat is sent only when the subscriber was sent no event of
\* any kind during the preceding 10 seconds, and a poll cycle that finds
\* such a silence (and does not end the stream) sends one.
C16_HeartbeatOnlyAfterSilence ==
    [][\A s \in Subs :
          /\ HeartbeatStep(s)
                => /\ ~ProgressEventStep(s)
                   /\ now - last_event_at[s] >= HeartbeatInterval
          /\ (/\ now' = now + SleepTicks
              /\ ~ProgressEventStep(s)
              /\ now - last_event_at[s] >= HeartbeatInterval)
                => HeartbeatStep(s)]_vars

\* C17: whenever the envelope meta holds a progress, it is an integer
\* between 0 and 100.
C17_ProgressInRange ==
    Has(store, "progress") => store["progress"] \in 0..100

\* a step that handles a request
RequestStep == requests' = requests + 1

\* C18: with queue_backend = auto, once a resolution has fallen back to the
\* in-memory queue, every later resolution returns the in-memory queue, and
\* a lookup of an envelope of the in-memory queue finds it.
C18_FallbackIsSticky ==
    [][(queue_backend = "auto" /\ fell_back /\ RequestStep)
          => /\ resolved' \in {"memory", "none"}
             /\ (resp'.op \in {"jobs", "stream"} /\ resp'.job \in mem_jobs)
                    => resp'.code = 200]_vars

\* C19: a submission answered 400 (profile not in fast/balanced/precise) or
\* 503 (broker required and unreachable) stores no audio blob, enqueues no
\* envelope and creates no catalog row.
C19_RejectionHasNoEffect ==
    [][(RequestStep /\ resp'.op = "submit" /\ resp'.code \in {400, 503})
          => UNCHANGED <<blobs, mem_jobs, brk_jobs, rows>>]_vars

C19_Witness ==
    /\ resp.op = "submit" /\ resp.code = 503
    /\ requests = 2
    /\ Cardinality(blobs) = 1 /\ Cardinality(rows) = 1

\* C20: a run that took longer than the configured job_timeout, or was
\* interrupted for it, leaves the envelope with status failed and
\* error_message "timeout".
C20_TimeoutFailsEnvelope ==
    (wpc = "done" /\ (now > JobTimeout \/ werr = "timeout"))
        => /\ Status(store) = "failed"
           /\ Get(store, "error_message", "") = "timeout"

\* InMemoryJob.is_finished()
IsFinished == GetStatus(jstatus, store) \in {"finished", "failed"}

\* InMemoryQueue.count, the queue holding the job of the submission
QueueCount == IF jstatus # "absent" /\ ~IsFinished THEN 1 ELSE 0

\* the moves of the status of an in-memory job
MemoryStatusEdges ==
    {<<"absent", "queued">>, <<"queued", "started">>,
     <<"started", "finished">>, <<"started", "failed">>}

\* what C21 says of a job whose run has got as far as the given positions
MemoryJobSettled(positions) ==
    (backend = "memory" /\ wpc \in positions)
        => /\ IsFinished
           /\ GetStatus(jstatus, store) = "failed" <=> Status(store) = "failed"
           /\ Status(store) \in {"completed", "failed"}

\* C21 as stated: on the in-memory queue, once the function of the job has
\* returned or raised, get_status is finished or failed (failed exactly
\* when meta status is failed) and meta status is completed or failed.
C21_SettledOnceFunctionEnded ==
    MemoryJobSettled({"return", "except", "except_msg", "finally", "done"})

\* C21 as amended: on the in-memory queue the status of a job moves only
\* queued -> started -> finished or failed; once _run has ended, get_status
\* is finished or failed for good (failed exactly when meta status is
\* failed) and meta status is completed or failed; count is the number of
\* jobs whose run has not ended.
C21_MemoryJobLifecycle ==
    /\ [][(backend = "memory" /\ jstatus' # jstatus)
             => <<jstatus, jstatus'>> \in MemoryStatusEdges]_vars
    /\ [][(backend = "memory" /\ IsFinished)
             => GetStatus(jstatus', store') = GetStatus(jstatus, store)]_vars
    /\ [](MemoryJobSettled({"done"}))
    /\ [](backend = "memory"
             => QueueCount = IF hpc # "start" /\ wpc # "done" THEN 1 ELSE 0)

C21_Witness ==
    /\ backend = "memory" /\ wpc = "done" /\ werr # ""
    /\ jstatus = "failed" /\ QueueCount = 0

\* the test of SamePhrase written out for two segments of a list
NearDuplicate(a, b) ==
    /\ a.text = b.text
    /\ Abs(a.start - b.start) < NearSeconds
    /\ Abs(a.end - b.end) < NearSeconds

\* C22: across any sequence of chunk pushes, whatever segment times the
\* decoder returns, last_t_end of a live session never decreases.
C22_LastTEndNeverDecreases == [][live'.last_t_end >= live.last_t_end]_vars

\* two pushes were answered and the last accumulated segment ends before
\* the high-water mark: a later segment moved the mark and was not appended
C22_Witness ==
    /\ live.answered >= 2
    /\ Len(live.segments) >= 1
    /\ live.last_t_end > live.segments[Len(live.segments)].end

\* C23: in the accumulated segment list of a live session no two adjacent
\* segments have the same text with start times less than 0.5 s apart and
\* end times less than 0.5 s apart.
C23_NoAdjacentDuplicate ==
    \A i \in 1..(Len(live.segments) - 1) :
        ~NearDuplicate(live.segments[i], live.segments[i + 1])

\* two chunks decoded the same phrase at nearly equal times and one segment
\* is left: the second moved last_t_end and was not appended
C23_Witness ==
    /\ live.chunk_count = 2
    /\ Len(live.segments) = 1
    /\ live.last_t_end = live.segments[1].end + 1

\* C24: the segment list stored in a job row that reached completed through
\* the queued worker has no two adjacent entries with the same text, start
\* times less than 0.5 s apart and end times less than 0.5 s apart.
C24_CompletedRowHasNoAdjacentDuplicate ==
    seg_run.row_status = "completed" =>
        \A i \in 1..(Len(seg_run.row_segments) - 1) :
            ~NearDuplicate(seg_run.row_segments[i],
                           seg_run.row_segments[i + 1])

\* C25: the chunk pushes of a live session are serialized: whenever no push
\* is running chunk_count equals the number of pushes that were answered
\* (accepted or dropped), and no two pushes use the same chunk index.
C25_PushesAreSerialized ==
    /\ (\A p \in Pushers : live.ppc[p] = "idle")
           => live.chunk_count = live.answered
    /\ \A p, q \in Pushers :
           (p # q /\ live.ppc[p] # "idle" /\ live.ppc[q] # "idle")
               => live.pindex[p] # live.pindex[q]

\* C26: after a successful finalize the session is no longer in the table,
\* its directory is deleted, a completed row exists, and any later chunk or
\* finalize request is answered 404.
C26_FinalizedSessionIsGone ==
    /\ [](live.finalized =>
            /\ "a" \notin live.live_sessions
            /\ ~live.directory
            /\ \E i \in DOMAIN live.transcriptions :
                   live.transcriptions[i] = "completed")
    /\ [][live.finalized =>
            /\ \A p \in Pushers :
                   live.ppc[p] = "idle" =>
                       /\ live'.ppc[p] = "idle"
                       /\ live'.presp[p] \in {live.presp[p], 404}
            /\ live.fpc = "idle" =>
                   /\ live'.fpc = "idle"
                   /\ live'.fresp \in {live.fresp, 404}]_vars

\* a step in which a live request passes its purge (create, chunk push,
\* finalize) or a discard has removed its session
LiveRequestHandled ==
    \/ live'.live_requests # live.live_requests /\ live'.dpc # "wait"
    \/ live.dpc = "cleanup" /\ live'.dpc = "idle"

\* C27: after any live request handled at time t, the session table holds
\* no session whose last activity is more than 3600 s before t.
C27_NoExpiredSessionAfterRequest ==
    [][LiveRequestHandled => ~Expired(live', now')]_vars

\* C28: a chunk that cannot be decoded or normalizes to zero frames is
\* answered normally; chunk_count and dropped_chunks each grow by exactly
\* one, and segments, last_t_end, the ring and the accumulated audio stay
\* as they were.
C28_DroppedChunkEffect ==
    [][\A p \in Pushers :
          (live.ppc[p] = "wait" /\ live'.ppc[p] = "idle") =>
              /\ live'.presp[p] = 200
              /\ live'.chunk_count = live.chunk_count + 1
              /\ live'.dropped_chunks = live.dropped_chunks + 1
              /\ live'.segments = live.segments
              /\ live'.last_t_end = live.last_t_end
              /\ live'.ring = live.ring
              /\ live'.audio = live.audio]_vars

\* C29: while the endpoint has answered every probe, the calls of
\* ensure_buckets on one bucket configuration probe the remote store at
\* most once, however they interleave, and later calls do not probe.
C29_SingleProbe == ~s3.unreachable_seen => s3.probes <= 1

\* C30: once the remote store has been found unreachable, every storage
\* operation that begins later, on any instance, uses the local variant,
\* no call that begins later contacts the endpoint, and the downgrade has
\* been logged exactly once.
C30_DowngradeIsProcessWide ==
    /\ [](s3.unreachable_seen => s3.warnings = 1 /\ s3.late_contacts = 0)
    /\ [][(s3.unreachable_seen /\ s3'.operations # s3.operations)
              => s3'.variant = "local"]_vars

\* the largest end time over the accumulated segments, 0 when none
MaxSegmentEnd(segs) ==
    IF segs = <<>> THEN 0
    ELSE CHOOSE m \in {segs[i].end : i \in DOMAIN segs} :
             \A i \in DOMAIN segs : m >= segs[i].end

\* C38: last_t_end is advanced only when a segment is accepted: after
\* every chunk it equals the maximum end time over the accepted segments
\* of the session (0 when none).
C38_LastTEndIsMaxAcceptedEnd ==
    live.last_t_end = MaxSegmentEnd(live.segments)

\* what finalize, a chunk push or discard can write for a session
SessionWrites(L) == <<L.audio, L.ring, L.segments, L.transcriptions>>

\* C39: once finalize or discard has removed the session and deleted its
\* directory, no request that was already in flight writes the audio
\* file, the ring or the segments, or creates a catalog row.
C39_NoWriteAfterRemoval ==
    [][live.removed => SessionWrites(live') = SessionWrites(live)]_vars

\* the fields of the session a chunk push works on
SessionState(L) ==
    <<L.chunk_count, L.dropped_chunks, L.segments, L.last_t_end, L.ring,
      L.audio>>

\* C40: a chunk push that is answered 500 because the window could not
\* be transcribed leaves the session as it was before the call.
C40_FailedPushLeavesSession ==
    [][\A p \in Pushers :
         (live.ppc[p] = "merge" /\ live'.presp[p] = 500)
             => SessionState(live') = SessionState(live)]_vars

\* the repetition rule as the claim states it for the segment offered to
\* a run P: the rule is in force when the window is positive
ClaimedRepeat(P, seg) ==
    /\ P.repeat_window > 0
    /\ RepeatCountIn(LastSegments(P.segments,
                                  RecentHistory(P.max_duplicates)),
                     seg.text, seg.start, P.repeat_window)
           >= P.max_duplicates

\* C37: a segment that neither the already-covered rule nor the
\* adjacent-duplicate rule drops is dropped by the repetition rule
\* exactly when repeat_window > 0 and at least repeat_max of the last N
\* accepted segments have its text and started within repeat_window
\* seconds of it; otherwise it is accepted.
C37_RepetitionRule ==
    [][(promo'.offers = promo.offers + 1
        /\ promo'.verdict \in {"repeat", "accepted"})
           => (promo'.verdict = "repeat"
                   <=> ClaimedRepeat(promo, promo'.offered))]_vars

\* C31: no two transcribe calls on the same shared adapter execute the
\* engine decode at the same time.
C31_OneDecodeAtATime == Cardinality(eng.decoding) <= 1

\* the decodes with the filter enabled that the engine rejected: with an
\* HTTPError or URLError, or with a TypeError that names vad_filter
FilterRejections(calls) ==
    {i \in DOMAIN calls :
        /\ calls[i].vad = "on"
        /\ \/ calls[i].out = "url"
           \/ calls[i].out = "type" /\ calls[i].key = "vad_filter"}

\* C33: when the decode with the filter enabled is rejected, transcribe
\* makes exactly one more decode, with the filter not enabled, and returns
\* its result or raises its error; the filter is rejected at most once.
C33_OneRetryWithoutFilter ==
    \A c \in Callers :
        LET calls == eng.calls[c]
            rejected == FilterRejections(calls)
        IN  (eng.outcome[c] # "none" /\ rejected # {})
                => /\ Cardinality(rejected) = 1
                   /\ \A i \in rejected :
                        /\ Len(calls) = i + 1
                        /\ calls[i + 1].vad # "on"
                        /\ eng.outcome[c] = "returned"
                               <=> calls[i + 1].out = "ok"

C33_Witness ==
    \E c \in Callers :
        /\ eng.outcome[c] = "returned"
        /\ Len(eng.calls[c]) = 3
        /\ eng.calls[c][1].out = "type"
        /\ eng.calls[c][2].out = "url"
        /\ 2 \in FilterRejections(eng.calls[c])

\* the first decode of the run raised an accelerator dependency error
CudaErrorRaised ==
    /\ job.decodes # <<>>
    /\ IsCudaDependencyError(job.decodes[1].out)

\* the decode is retried exactly once, on cpu, and the outcome recorded
RetriedOnCpu ==
    /\ Len(job.decodes) = 2
    /\ job.decodes[2].device = "cpu"
    /\ IF job.decodes[2].out = "ok"
       THEN job.status = "completed" /\ job.device_preference = "cpu"
       ELSE job.status = "failed"

C34_DebugEventsAreTheMostRecent ==
    job.row_exists =>
        LET n == Len(job.log)
            kept == Min(n, job.debug_event_limit)
        IN  /\ Len(job.debug_events) = kept
            /\ \A i \in 1..kept :
                   job.debug_events[i] = job.log[n - kept + i]

C34_Witness ==
    /\ job.row_exists
    /\ Len(job.log) >= job.debug_event_limit + 2
    /\ job.debug_event_limit >= 2

\* the stage of the last debug event of the row
LastStage(J) == J.debug_events[Len(J.debug_events)].stage

\* C35 as stated: after process_transcription returns for an existing
\* row, the status is COMPLETED or FAILED, and the last debug event is
\* processing-complete when COMPLETED and processing-error when FAILED.
C35_TerminalStatusAndLastEvent ==
    (job.pc = "returned" /\ job.row_exists)
        => /\ job.status \in {"completed", "failed"}
           /\ job.status = "completed"
                  => LastStage(job) = "processing-complete"
           /\ job.status = "failed" => LastStage(job) = "processing-error"

\* C35 amended: a FAILED row ends with processing-error, or with
\* processing-missing-file when the stored audio file was gone and no
\* decode was made.
C35_TerminalStatusAndLastEventOrMissingFile ==
    (job.pc = "returned" /\ job.row_exists)
        => /\ job.status \in {"completed", "failed"}
           /\ job.status = "completed"
                  => LastStage(job) = "processing-complete"
           /\ job.status = "failed"
                  => IF job.file_exists
                     THEN LastStage(job) = "processing-error"
                     ELSE /\ LastStage(job) = "processing-missing-file"
                          /\ job.decodes = <<>>

C35_Witness ==
    /\ job.pc = "returned"
    /\ job.row_exists
    /\ job.status = "failed"
    /\ ~job.file_exists
    /\ LastStage(job) = "processing-missing-file"

\* the message of a HuggingFace-authentication error
HuggingFaceAuthMessage(message) ==
    /\ "huggingface" \in message
    /\ message \cap {"auth", "autentic", "token"} # {}

\* the primary preparation succeeds, or fails with WhisperXVADUnavailableError
\* or with a message of the class Covered while the fallback can be prepared
PreparableWith(P, Covered(_)) ==
    \/ P.primary.kind = "ok"
    \/ /\ P.fallback
       /\ \/ P.primary.kind = "WhisperXVADUnavailableError"
          \/ P.primary.kind = "RuntimeError" /\ Covered(P.primary.message)

ModelReady(P) == P.status = "ready" /\ P.progress = 100

\* a task has been submitted and the cases of Covered can be prepared:
\* the key becomes ready, and is ready once every request and task ended
BecomesReady(Covered(_)) ==
    /\ (prep.future # "none" /\ PreparableWith(prep, Covered))
           ~> ModelReady(prep)
    /\ []((/\ prep.future = "done"
           /\ \A r \in Requesters : prep.rpc[r] = "idle"
           /\ PreparableWith(prep, Covered)) => ModelReady(prep))

\* C36 as stated: after request_model_preparation the status of the key
\* eventually becomes ready with progress 100 whenever the transcriber
\* can be prepared, also when the primary preparation fails with a
\* VAD-unavailable or HuggingFace-authentication error and the fallback
\* prepares; the final status is then ready, not error.
C36_PreparationBecomesReady == BecomesReady(HuggingFaceAuthMessage)

\* a HuggingFace-authentication message that names the VAD model
VadAuthMessage(message) ==
    "vad" \in message /\ HuggingFaceAuthMessage(message)

\* C36 amended: the fallback covers WhisperXVADUnavailableError and the
\* HuggingFace-authentication errors whose message names the VAD model.
C36_PreparationBecomesReadyForVadErrors == BecomesReady(VadAuthMessage)

C36_Witness ==
    /\ prep.primary.kind = "RuntimeError"
    /\ prep.primary.message = LegacyVadMessage
    /\ prep.future = "done"
    /\ ModelReady(prep)

====
